---------------------------- MODULE Spec2Model ----------------------------
(***************************************************************************)
(* Kitchen rhythm game backend: chart scheduler (chart_manager.py), note   *)
(* judgment and miss watchdog (game_logic.py), condition evaluator         *)
(* (audio_manager.py).                                                     *)
(*                                                                         *)
(* Time is an integer number of ticks of 1/TicksPerSecond second (50 ms),  *)
(* the largest unit in which every timing constant of config.py is a whole *)
(* number.  time.time() is the variable now.                               *)
(***************************************************************************)
EXTENDS Integers, Sequences, FiniteSets, TLC

None == "None"

\* ------------------------------------------------------------------------
\* Timing constants (config.py), in ticks
\* ------------------------------------------------------------------------
TicksPerSecond == 4 * 5

LEAD_TIME == 3 * TicksPerSecond
HIT_WINDOW == 3 * TicksPerSecond
HOLD_CHECK_INTERVAL == TicksPerSecond \div 20
HOLD_GRACE_PERIOD == TicksPerSecond \div 10
HOLD_THRESHOLD == 1 * TicksPerSecond

\* time.sleep(1) of the countdown, in ticks
CountdownSleep == 1 * TicksPerSecond
\* join(timeout=2.0) and time.sleep(0.1) of restart_chart_playback, in ticks
JoinTimeout == 2 * TicksPerSecond
SettleDelay == TicksPerSecond \div 10

\* ------------------------------------------------------------------------
\* Bounds of the model
\* ------------------------------------------------------------------------
\* the clock stops advancing at MaxTime
MaxTime == 540
\* a judgment pass in flight spans at most MaxLag steps of the clock
MaxLag == 1
\* the clock is observed at instants one hit window apart, which puts an
\* instant before, on and after each end of the window of every note
ClockStep == HIT_WINDOW
\* judgment passes that can be in flight at the same time
Passes == {"p1", "p2"}
\* miss-watchdog thread slots
Watchdogs == {"w1", "w2"}
\* calls of start / stop / restart after the start at boot
MaxCalls == 1
\* no judgment pass begins once a note has this many results
MaxResults == 5

\* ------------------------------------------------------------------------
\* Condition evaluator (audio_manager.py)
\* ------------------------------------------------------------------------
\* dict.get(key, default)
Get(d, k, default) == IF k \in DOMAIN d THEN d[k] ELSE default

\* str(target) as the sequence of its characters; TLA+ strings have no
\* characters, so the targets are spelled here, and a target that is not
\* spelled has no value
str(target) ==
  CASE target = "low" -> <<"l", "o", "w">>
    [] target = "med" -> <<"m", "e", "d">>
    [] target = "medium" -> <<"m", "e", "d", "i", "u", "m">>
    [] target = "high" -> <<"h", "i", "g", "h">>
    [] target = "flip" -> <<"f", "l", "i", "p">>
    [] target = "lower" -> <<"l", "o", "w", "e", "r">>
    [] target = "medium-low" ->
         <<"m", "e", "d", "i", "u", "m", "-", "l", "o", "w">>
    [] target = "1" -> <<"1">>
    [] target = "2" -> <<"2">>
    [] target = "up" -> <<"u", "p">>
    [] target = "down" -> <<"d", "o", "w", "n">>
    [] target = "left" -> <<"l", "e", "f", "t">>
    [] target = "right" -> <<"r", "i", "g", "h", "t">>
    [] target = "clockwise" ->
         <<"c", "l", "o", "c", "k", "w", "i", "s", "e">>
    [] target = "counterclockwise" ->
         <<"c", "o", "u", "n", "t", "e", "r", "c", "l", "o", "c", "k", "w",
           "i", "s", "e">>

\* w in s, for sequences of characters
Contains(s, w) ==
  \E i \in 0..(Len(s) - Len(w)) : \A j \in 1..Len(w) : s[i + j] = w[j]

\* the band reference values of the pan. audio_manager imports LOW_FIRE,
\* MED_FIRE and HIGH_FIRE from config, and the config module of the sources
\* does not define them: they are configuration ("a configured reference
\* value per band"), held in the variable config
VARIABLE config
LOW_FIRE == config.LOW_FIRE
MED_FIRE == config.MED_FIRE
HIGH_FIRE == config.HIGH_FIRE

EDGE_THRESHOLD == 256
CENTER == 512

\* (variant of should_play: the low band has no lower limit)
should_play_open_band(utensil, sensor_data, target, threshold) ==
  IF target = None THEN FALSE
  ELSE IF utensil = "pan" THEN
    LET button_held == Get(sensor_data, "distance", FALSE)
        curr_val == Get(sensor_data, "rotation", 0)
    IN IF Contains(str(target), <<"l", "o", "w">>)
         THEN curr_val <= LOW_FIRE + threshold
       ELSE IF Contains(str(target), <<"m", "e", "d">>)
         THEN curr_val <= MED_FIRE + threshold /\ curr_val >= MED_FIRE - threshold
       ELSE IF Contains(str(target), <<"h", "i", "g", "h">>)
         THEN curr_val <= HIGH_FIRE + threshold /\ curr_val >= HIGH_FIRE - threshold
       ELSE IF Contains(str(target), <<"f", "l", "i", "p">>)
         THEN button_held
       ELSE FALSE
  ELSE IF utensil = "cutting_board" THEN
    Get(sensor_data, target, 0) = 1
  ELSE IF utensil = "mixing_bowl" THEN
    LET x == Get(sensor_data, "x", 512)
        y == Get(sensor_data, "y", 512)
    IN IF target = "up" THEN y < (CENTER - EDGE_THRESHOLD)
       ELSE IF target = "down" THEN y > (CENTER + EDGE_THRESHOLD)
       ELSE IF target = "left" THEN x < (CENTER - EDGE_THRESHOLD)
       ELSE IF target = "right" THEN x > (CENTER + EDGE_THRESHOLD)
       ELSE FALSE
  ELSE FALSE

\* (variant of should_play: a button counts as pressed when any button of the board is)
should_play_any_button(utensil, sensor_data, target, threshold) ==
  IF target = None THEN FALSE
  ELSE IF utensil = "pan" THEN
    LET button_held == Get(sensor_data, "distance", FALSE)
        curr_val == Get(sensor_data, "rotation", 0)
    IN IF Contains(str(target), <<"l", "o", "w">>)
         THEN curr_val <= LOW_FIRE + threshold /\ curr_val >= LOW_FIRE - threshold
       ELSE IF Contains(str(target), <<"m", "e", "d">>)
         THEN curr_val <= MED_FIRE + threshold /\ curr_val >= MED_FIRE - threshold
       ELSE IF Contains(str(target), <<"h", "i", "g", "h">>)
         THEN curr_val <= HIGH_FIRE + threshold /\ curr_val >= HIGH_FIRE - threshold
       ELSE IF Contains(str(target), <<"f", "l", "i", "p">>)
         THEN button_held
       ELSE FALSE
  ELSE IF utensil = "cutting_board" THEN
    \E k \in DOMAIN sensor_data : sensor_data[k] = 1
  ELSE IF utensil = "mixing_bowl" THEN
    LET x == Get(sensor_data, "x", 512)
        y == Get(sensor_data, "y", 512)
    IN IF target = "up" THEN y < (CENTER - EDGE_THRESHOLD)
       ELSE IF target = "down" THEN y > (CENTER + EDGE_THRESHOLD)
       ELSE IF target = "left" THEN x < (CENTER - EDGE_THRESHOLD)
       ELSE IF target = "right" THEN x > (CENTER + EDGE_THRESHOLD)
       ELSE FALSE
  ELSE FALSE

should_play(utensil, sensor_data, target, threshold) ==
  IF target = None THEN FALSE
  ELSE IF utensil = "pan" THEN
    LET button_held == Get(sensor_data, "distance", FALSE)
        curr_val == Get(sensor_data, "rotation", 0)
    IN IF Contains(str(target), <<"l", "o", "w">>)
         THEN curr_val <= LOW_FIRE + threshold /\ curr_val >= LOW_FIRE - threshold
       ELSE IF Contains(str(target), <<"m", "e", "d">>)
         THEN curr_val <= MED_FIRE + threshold /\ curr_val >= MED_FIRE - threshold
       ELSE IF Contains(str(target), <<"h", "i", "g", "h">>)
         THEN curr_val <= HIGH_FIRE + threshold /\ curr_val >= HIGH_FIRE - threshold
       ELSE IF Contains(str(target), <<"f", "l", "i", "p">>)
         THEN button_held
       ELSE FALSE
  ELSE IF utensil = "cutting_board" THEN
    Get(sensor_data, target, 0) = 1
  ELSE IF utensil = "mixing_bowl" THEN
    LET x == Get(sensor_data, "x", 512)
        y == Get(sensor_data, "y", 512)
    IN IF target = "up" THEN y < (CENTER - EDGE_THRESHOLD)
       ELSE IF target = "down" THEN y > (CENTER + EDGE_THRESHOLD)
       ELSE IF target = "left" THEN x < (CENTER - EDGE_THRESHOLD)
       ELSE IF target = "right" THEN x > (CENTER + EDGE_THRESHOLD)
       ELSE FALSE
  ELSE FALSE

\* SOUND_RULES[utensil]['threshold'] as config.py sets it
Utensils == {"pan", "cutting_board", "mixing_bowl"}
InitialThreshold(utensil) == IF utensil = "pan" THEN 5 ELSE 0

\* rule['threshold'] of rule = SOUND_RULES[utensil], as the judgment passes
\* and on_message read it
VARIABLE threshold
Threshold(utensil) == threshold[utensil]

\* configurations of the band references: increasing levels, the lowest of
\* them at the pan's tolerance from the default rotation 0 and just beyond it
Levels == {5, 6, 20, 50}
Configs ==
  {c \in [LOW_FIRE : Levels, MED_FIRE : Levels, HIGH_FIRE : Levels] :
     c.LOW_FIRE < c.MED_FIRE /\ c.MED_FIRE < c.HIGH_FIRE}
\* the specifications of a playback deliver no reading of the pan, so that
\* no band is evaluated in them: they run under one configuration
PlaybackConfig == CHOOSE c \in Configs : TRUE

\* ------------------------------------------------------------------------
\* Inputs: charts and sensor readings
\* ------------------------------------------------------------------------
Evt(t, u, tg, d) == [time |-> t, utensil |-> u, target |-> tg, duration |-> d]

\* a tap and a hold, each followed by a later event of another utensil that
\* keeps the chart playing past their hit window; a tap and a hold that are
\* the last event of their chart and whose window opens after the chart starts
ChartTap == <<Evt(0, "cutting_board", "1", 0),
              Evt(9 * TicksPerSecond, "pan", "flip", 0)>>
ChartLateTap == <<Evt(6 * TicksPerSecond, "cutting_board", "1", 0)>>
ChartHold == <<Evt(3 * TicksPerSecond, "mixing_bowl", "up", 3 * TicksPerSecond),
               Evt(12 * TicksPerSecond, "pan", "flip", 0)>>
ChartLateHold == <<Evt(6 * TicksPerSecond, "mixing_bowl", "up", 3 * TicksPerSecond)>>
\* a button that no reading of the stream presses
ChartOther == <<Evt(0, "cutting_board", "2", 0)>>
\* a chord: two events of one utensil at the same time with different
\* targets, of which the readings of the stream satisfy the second only
ChartTapChord == <<Evt(6 * TicksPerSecond, "cutting_board", "2", 0),
                   Evt(6 * TicksPerSecond, "cutting_board", "1", 0)>>
\* a chord whose first event has a note name the mapping file does not know
ChartNoneChord == <<Evt(6 * TicksPerSecond, "cutting_board", None, 0),
                    Evt(6 * TicksPerSecond, "cutting_board", "1", 0)>>
ChartHoldChord ==
  <<Evt(6 * TicksPerSecond, "mixing_bowl", "left", 3 * TicksPerSecond),
    Evt(6 * TicksPerSecond, "mixing_bowl", "up", 3 * TicksPerSecond)>>
\* three events of two utensils, two of them at the same time
ChartThree == <<Evt(0, "cutting_board", "1", 0),
                Evt(3 * TicksPerSecond, "mixing_bowl", "up", 3 * TicksPerSecond),
                Evt(3 * TicksPerSecond, "cutting_board", "2", 0)>>
\* the same utensil twice
ChartTwo == <<Evt(3 * TicksPerSecond, "pan", "flip", 0),
              Evt(6 * TicksPerSecond, "pan", "low", 0)>>
\* events closer than LEAD_TIME to the start and to each other, and a target
\* the mapping file does not know
ChartDense == <<Evt(1 * TicksPerSecond, "pan", "high", 0),
                Evt(2 * TicksPerSecond, "mixing_bowl", "left", 2 * TicksPerSecond),
                Evt(2 * TicksPerSecond, "cutting_board", None, 0),
                Evt(7 * TicksPerSecond, "pan", "medium", 1 * TicksPerSecond)>>

\* chart_data as returned by parse_midi_to_rhythm (offset 0.0); NoChart is None
Chart(evts) == [present |-> TRUE, events |-> evts, offset |-> 0]
NoChart == [present |-> FALSE, events |-> <<>>, offset |-> 0]
Charts == {Chart(ChartTap), Chart(ChartLateTap), Chart(ChartHold),
           Chart(ChartLateHold)}
ChordCharts == {Chart(ChartTap), Chart(ChartLateTap), Chart(ChartLateHold),
                Chart(ChartTapChord), Chart(ChartHoldChord),
                Chart(ChartNoneChord)}
ConcurrentCharts == {Chart(ChartTap), Chart(ChartLateTap), Chart(ChartLateHold)}
SchedulerCharts ==
  Charts \cup {Chart(ChartThree), Chart(ChartTwo), Chart(ChartDense), Chart(<<>>)}

\* (utensil, sensor snapshot) payloads of the sensor stream; the last two
\* are messages without the fields the utensil expects
Reading(u, s) == [utensil |-> u, data |-> s]
Payloads ==
  { Reading("cutting_board", [b1 \in {"1"} |-> 1]),
    Reading("cutting_board", [b1 \in {"1"} |-> 0]),
    Reading("mixing_bowl", [x |-> 512, y |-> 100]),
    Reading("mixing_bowl", [x |-> 512, y |-> 512]),
    Reading("cutting_board", <<>>),
    Reading("mixing_bowl", <<>>) }

\* a message of the pan without fields
PanPayloads == {Reading("pan", <<>>)}

\* the arguments of should_play called on its own: snapshots with every
\* field present or missing, values on both sides of every comparison
RotationValues ==
  UNION {{ref - 6, ref - 5, ref, ref + 5, ref + 6} : ref \in Levels} \cup {0}
PanSnapshots ==
  {[k \in rk \cup dk |-> IF k = "rotation" THEN r ELSE d] :
     r \in RotationValues, d \in BOOLEAN,
     rk \in SUBSET {"rotation"}, dk \in SUBSET {"distance"}}
BoardSnapshots ==
  {[k \in k1 \cup k2 |-> IF k = "1" THEN b1 ELSE b2] :
     b1 \in {0, 1}, b2 \in {0, 1}, k1 \in SUBSET {"1"}, k2 \in SUBSET {"2"}}
Coordinates ==
  {0, CENTER - EDGE_THRESHOLD - 1, CENTER - EDGE_THRESHOLD, CENTER,
   CENTER + EDGE_THRESHOLD, CENTER + EDGE_THRESHOLD + 1}
BowlSnapshots ==
  {[k \in kx \cup ky |-> IF k = "x" THEN x ELSE y] :
     x \in Coordinates, y \in Coordinates,
     kx \in SUBSET {"x"}, ky \in SUBSET {"y"}}
\* detect_mixing_direction(x, y), with the direction it kept from the
\* messages before (mixing_bowl_state['direction'], None at first)
CENTER_X == 519
Directions == {"clockwise", "counterclockwise"}
detect_mixing_direction(x, kept) ==
  IF x < CENTER_X THEN "counterclockwise"
  ELSE IF x > CENTER_X THEN "clockwise"
  ELSE kept
\* on_message adds the direction to the snapshot of the bowl before it
\* evaluates the snapshot
Directed(d, kept) ==
  [k \in DOMAIN d \cup {"direction"} |->
     IF k = "direction"
       THEN detect_mixing_direction(Get(d, "x", CENTER_X), kept)
       ELSE d[k]]
DirectedSnapshots ==
  {Directed(d, kept) :
     d \in BowlSnapshots \cup {[x |-> CENTER_X, y |-> CENTER]},
     kept \in Directions \cup {None}}
\* the arguments on_message passes to check_note_hits for the payload m,
\* with the direction kept from the messages before
on_message(m, kept) ==
  IF m.utensil = "mixing_bowl" THEN Reading(m.utensil, Directed(m.data, kept))
  ELSE m
\* mixing_bowl_state['direction'] after the message
KeptAfter(m, kept) ==
  IF m.utensil = "mixing_bowl"
    THEN detect_mixing_direction(Get(m.data, "x", CENTER_X), kept)
    ELSE kept
\* (utensil, sensor snapshot) arguments of check_note_hits
Readings ==
  {on_message(m, kept) : m \in Payloads, kept \in Directions \cup {None}}
\* the readings of the payloads that carry a sensor field
CompleteReadings == {r \in Readings : DOMAIN r.data \ {"direction"} # {}}
EvalSnapshots ==
  PanSnapshots \cup BoardSnapshots \cup BowlSnapshots \cup DirectedSnapshots
EvalTargets ==
  {None, "low", "med", "medium", "high", "flip", "lower", "medium-low", "1",
   "2", "up", "down", "left", "right", "clockwise", "counterclockwise"}
EvalCalls ==
  {[pc |-> "call", utensil |-> u, sensor_data |-> d, target |-> t,
    threshold |-> InitialThreshold(u), result |-> FALSE] :
     u \in Utensils, d \in EvalSnapshots, t \in EvalTargets}

\* ------------------------------------------------------------------------
\* State
\* ------------------------------------------------------------------------
VARIABLES
  now,              \* time.time()
  chart_data,       \* chart_manager.chart_data
  chart_playing,    \* chart_manager.chart_playing
  chart_thread,     \* chart_manager.chart_thread: the scheduler loop and its locals
  counter,          \* chart_manager.counter (itertools.count)
  miss_checker,     \* the watchdog threads started so far
  notes,            \* every note dict created so far (the objects)
  pending_notes,    \* game_logic.pending_notes: references into notes
  target_value,     \* SOUND_RULES[utensil]["target_value"]
  sound_rules_lock, \* holder of game_logic.sound_rules_lock
  pass,             \* the calls of check_note_hits in flight
  results,          \* "note_result" emissions, per note object
  chart_log,        \* "chart_event" / "target_active" emissions, in order
  miss_checker_thread, \* chart_manager.miss_checker_thread: the latest watchdog
  restart,          \* the call of restart_chart_playback in flight
  calls,            \* number of start / stop / restart calls after boot
  epoch,            \* number of times restart has cleared pending_notes
  last_call,        \* the last call of start / stop / restart after boot
  evaluation,       \* a call of should_play on its own: arguments and result
  locking,          \* the lock operations of the threads, on their own
  scan,             \* note_miss_checker: the scan of each watchdog in progress
  mixing_bowl_state \* mqtt_handler.mixing_bowl_state['direction']

vars == <<now, chart_data, chart_playing, chart_thread, counter, miss_checker,
          notes, pending_notes, target_value, sound_rules_lock, pass,
          results, chart_log, miss_checker_thread, restart, calls, epoch,
          last_call, evaluation, locking, scan, mixing_bowl_state,
          config, threshold>>

\* the state of the control calls and of the evaluator called on its own
control_vars == <<miss_checker_thread, restart, calls, epoch, last_call,
                  evaluation, locking, scan, mixing_bowl_state,
                 config, threshold>>

\* chart_thread = None; the field epoch records the value of epoch when the
\* thread was started
NoThread == [pc |-> "none", count |-> 0, wake |-> 0, start_time |-> 0,
             visual_queue |-> {}, activation_queue |-> {}, epoch |-> 0,
             now |-> 0, popped |-> {}, bound |-> 0, events |-> <<>>]

NoReading == Reading(None, <<>>)
IdlePass == [pc |-> "idle", reading |-> NoReading, now |-> 0, notes_copy |-> <<>>,
             idx |-> 0, act |-> None, condition_met |-> FALSE, key |-> 0,
             step |-> 0]

\* last_check_time = None
NoTime == -1

\* a control call: its name and the chart it was given
Call(op, c) == [op |-> op, chart |-> c]

\* no call of restart_chart_playback in flight
NoRestart == [pc |-> "idle", chart |-> NoChart, deadline |-> 0]

\* the threads that take the locks of game_logic.py, and the locks
LockThreads ==
  {"on_message", "_chart_loop", "note_miss_checker", "restart_chart_playback"}
Locks == {"pending_lock", "sound_rules_lock"}
\* no thread is inside or before a `with` block
NoLocking ==
  [program |-> [t \in LockThreads |-> <<>>],
   at |-> [t \in LockThreads |-> 0],
   held |-> [t \in LockThreads |-> <<>>],
   owner |-> [l \in Locks |-> None]]

\* no watchdog is inside its scan: each sleeps between two iterations
NoScan == [w \in Watchdogs |-> [pc |-> "sleep", now |-> 0, at |-> 0]]

\* the watchdog w is inside `with pending_lock:` (game_logic.py:240-275)
Scanning(w) == scan[w].pc = "emit" \/ (scan[w].pc = "scan" /\ scan[w].at > 0)
\* the pass p is inside the `with pending_lock:` of a keyed write of
\* several fields, between two of the assignments
Writing(p) == pass[p].pc = "mark" /\ pass[p].step > 0
\* the holder of game_logic.pending_lock; the other blocks under the lock
\* (copy, keyed write of one field, clean-up, build, clear) are single steps
pending_lock ==
  IF \E w \in Watchdogs : Scanning(w)
    THEN CHOOSE w \in Watchdogs : Scanning(w)
  ELSE IF \E p \in Passes : Writing(p)
    THEN CHOOSE p \in Passes : Writing(p)
  ELSE None

\* no call of should_play on its own
NoEvaluation ==
  [pc |-> "idle", utensil |-> None, sensor_data |-> <<>>, target |-> None,
   threshold |-> 0, result |-> FALSE]

Init ==
  /\ now = 0
  /\ chart_data = NoChart
  /\ chart_playing = FALSE
  /\ chart_thread = NoThread
  /\ counter = 0
  /\ miss_checker = [w \in Watchdogs |-> "none"]
  /\ notes = <<>>
  /\ pending_notes = <<>>
  /\ target_value = [u \in Utensils |-> None]
  /\ sound_rules_lock = None
  /\ pass = [p \in Passes |-> IdlePass]
  /\ results = <<>>
  /\ chart_log = <<>>
  /\ miss_checker_thread = None
  /\ restart = NoRestart
  /\ calls = 0
  /\ epoch = 0
  /\ last_call = Call(None, NoChart)
  /\ evaluation = NoEvaluation
  /\ locking = NoLocking
  /\ scan = NoScan
  /\ mixing_bowl_state = None
  /\ config = PlaybackConfig
  /\ threshold = [u \in Utensils |-> InitialThreshold(u)]

\* should_play is about to be called on its own with any arguments
InitEval ==
  /\ now = 0
  /\ chart_data = NoChart
  /\ chart_playing = FALSE
  /\ chart_thread = NoThread
  /\ counter = 0
  /\ miss_checker = [w \in Watchdogs |-> "none"]
  /\ notes = <<>>
  /\ pending_notes = <<>>
  /\ target_value = [u \in Utensils |-> None]
  /\ sound_rules_lock = None
  /\ pass = [p \in Passes |-> IdlePass]
  /\ results = <<>>
  /\ chart_log = <<>>
  /\ miss_checker_thread = None
  /\ restart = NoRestart
  /\ calls = 0
  /\ epoch = 0
  /\ last_call = Call(None, NoChart)
  /\ evaluation \in EvalCalls
  /\ locking = NoLocking
  /\ scan = NoScan
  /\ mixing_bowl_state = None
  /\ config \in Configs
  /\ threshold = [u \in Utensils |-> InitialThreshold(u)]

\* ------------------------------------------------------------------------
\* Clock
\* ------------------------------------------------------------------------
Range(f) == {f[i] : i \in DOMAIN f}

\* (variant of MissDue: a hold is finalized whether or not it has started)
MissDueAnyHold(note, t) ==
  /\ ~(note.hit \/ note.hold_broken)
  /\ t > note.hit_time + HIT_WINDOW

\* the watchdog finalizes this note at time t
MissDue(note, t) ==
  /\ ~(note.hit \/ note.hold_broken)
  /\ IF ~note.is_hold THEN t > note.hit_time + HIT_WINDOW
     ELSE ~note.hold_started /\ t > note.hit_time + HIT_WINDOW

\* the watchdog (a 10 ms loop) has nothing left to do at the current time
WatchdogWaiting ==
  \A w \in Watchdogs :
    miss_checker[w] = "run" =>
      /\ chart_playing
      /\ scan[w].pc = "sleep"
      /\ \A i \in Range(pending_notes) : ~MissDue(notes[i], now)

\* the sleeps of the scheduler loop (1 s, 10 ms) return within the step of
\* the clock in which they are due; the clock of the model starts when the
\* chart is started; a loop that waits for pending_lock before the build
\* lets the clock move
ChartThreadWaiting ==
  \/ chart_thread.pc = "done"
  \/ chart_thread.pc = "countdown" /\ now < chart_thread.wake
  \/ chart_thread.pc = "build" /\ pending_lock # None
  \/ /\ chart_thread.pc = "tick"
     /\ chart_playing
     /\ chart_thread.visual_queue # {} \/ chart_thread.activation_queue # {}
     /\ \A e \in chart_thread.visual_queue \cup chart_thread.activation_queue :
          e.time > now

\* on_message tests the sound and calls check_note_hits within the step of
\* the clock in which the message arrived; a pass that has read the
\* clock lags it by at most MaxLag steps
Advance ==
  /\ now + ClockStep <= MaxTime
  /\ ChartThreadWaiting
  /\ WatchdogWaiting
  /\ \A p \in Passes :
       /\ pass[p].pc \notin {"message", "called"}
       /\ pass[p].pc # "idle" =>
            now + ClockStep - pass[p].now <= MaxLag * ClockStep
  /\ now' = now + ClockStep
  /\ UNCHANGED <<chart_data, chart_playing, chart_thread, counter,
                 miss_checker, notes, pending_notes, target_value,
                 sound_rules_lock, pass, results, chart_log>>
  /\ UNCHANGED control_vars

\* ------------------------------------------------------------------------
\* Chart scheduler (chart_manager.py)
\* ------------------------------------------------------------------------
\* (variant of Before: entries of equal time ordered newest first)
BeforeNewestFirst(a, b) == a.time < b.time \/ (a.time = b.time /\ a.id > b.id)

\* heap order of the queue entries (time, unique id, event); the field note
\* names the note object built from the same event
Before(a, b) == a.time < b.time \/ (a.time = b.time /\ a.id < b.id)

\* the entry heappop returns
HeapMin(q) == CHOOSE a \in q : \A b \in q : a = b \/ Before(a, b)

\* the dict appended to pending_notes for one event
NewNote(evt, hit_time) ==
  [utensil |-> evt.utensil, target |-> evt.target, hit_time |-> hit_time,
   duration |-> evt.duration, is_hold |-> evt.duration > HOLD_THRESHOLD,
   hit |-> FALSE, hold_started |-> FALSE, hold_active |-> FALSE,
   hold_broken |-> FALSE, hold_end_time |-> hit_time + evt.duration,
   last_check_time |-> NoTime]

\* (variant of visual_time: the lead applied only when the event is at least
\* LEAD_TIME after the moment the queue is built)
visual_time_clamped(hit_time) ==
  IF hit_time - LEAD_TIME < now THEN hit_time ELSE hit_time - LEAD_TIME

\* visual_time = hit_time - LEAD_TIME
visual_time(hit_time) == hit_time - LEAD_TIME

\* the stages of one iteration of the playback loop: at the loop test or in
\* the sleep ("tick"), before a chart_event, before the heappop of an
\* activation, before `with sound_rules_lock:`, before target_active
LoopStages == {"tick", "visual", "activation", "bind", "active"}

\* chart_thread.is_alive(): the thread is in the countdown, has read the
\* events ("events") or the start time ("build"), is in the playback loop,
\* or has written chart_playing = False and not yet ended ("finished")
ThreadAlive ==
  chart_thread.pc \in {"countdown", "events", "build", "finished"}
                        \cup LoopStages

\* (variant of start_chart_playback: the test of chart_thread.is_alive()
\* dropped)
start_chart_playback_unguarded(chart) ==
  /\ chart_data' = chart
  /\ IF ~chart.present
     THEN UNCHANGED <<chart_playing, chart_thread, miss_checker,
                      miss_checker_thread>>
     ELSE /\ \E w \in Watchdogs : miss_checker[w] # "run"
          /\ chart_playing' = TRUE
          /\ chart_thread' = [NoThread EXCEPT !.pc = "countdown", !.count = 5,
                                              !.wake = now + CountdownSleep,
                                              !.epoch = epoch]
          /\ LET w == CHOOSE w \in Watchdogs : miss_checker[w] # "run"
             IN /\ miss_checker' = [miss_checker EXCEPT ![w] = "run"]
                /\ miss_checker_thread' = w
  /\ UNCHANGED <<now, counter, notes, pending_notes, target_value,
                 sound_rules_lock, pass, results, chart_log, evaluation,
                 locking, scan,
                 mixing_bowl_state,
                 config, threshold>>

\* start_chart_playback(socketio, loaded_chart_data), called by kitchen_main
start_chart_playback(chart) ==
  /\ chart_data' = chart
  /\ IF ~chart.present \/ ThreadAlive
     THEN UNCHANGED <<chart_playing, chart_thread, miss_checker,
                      miss_checker_thread>>
     ELSE /\ \E w \in Watchdogs : miss_checker[w] # "run"
          /\ chart_playing' = TRUE
          /\ chart_thread' = [NoThread EXCEPT !.pc = "countdown", !.count = 5,
                                              !.wake = now + CountdownSleep,
                                              !.epoch = epoch]
          /\ LET w == CHOOSE w \in Watchdogs : miss_checker[w] # "run"
             IN /\ miss_checker' = [miss_checker EXCEPT ![w] = "run"]
                /\ miss_checker_thread' = w
  /\ UNCHANGED <<now, counter, notes, pending_notes, target_value,
                 sound_rules_lock, pass, results, chart_log, evaluation,
                 locking, scan,
                 mixing_bowl_state,
                 config, threshold>>

\* kitchen_main: the chart is loaded and started once, at boot
Boot(charts) ==
  /\ chart_thread.pc = "none"
  /\ ~chart_data.present
  /\ \E c \in charts : start_chart_playback(c)
  /\ UNCHANGED <<restart, calls, epoch, last_call>>

Main == Boot(Charts)

MainConcurrent == Boot(ConcurrentCharts)

MainScheduler == Boot(SchedulerCharts)

MainChord == Boot(ChordCharts)

\* _chart_loop: one sleep of the countdown has elapsed
Countdown ==
  /\ chart_thread.pc = "countdown"
  /\ chart_thread.count > 1
  /\ now >= chart_thread.wake
  /\ chart_thread' = [chart_thread EXCEPT !.count = @ - 1,
                                          !.wake = now + CountdownSleep]
  /\ UNCHANGED <<now, chart_data, chart_playing, counter, miss_checker, notes,
                 pending_notes, target_value, sound_rules_lock, pass, results,
                 chart_log>>
  /\ UNCHANGED control_vars

\* _chart_loop: after the last sleep, events = chart_data["events"]
BuildEvents ==
  /\ chart_thread.pc = "countdown"
  /\ chart_thread.count = 1
  /\ now >= chart_thread.wake
  /\ chart_data.present
  /\ chart_thread' = [chart_thread EXCEPT !.pc = "events", !.count = 0,
                                          !.events = chart_data.events]
  /\ UNCHANGED <<now, chart_data, chart_playing, counter, miss_checker, notes,
                 pending_notes, target_value, sound_rules_lock, pass, results,
                 chart_log>>
  /\ UNCHANGED control_vars

\* _chart_loop: start_time = time.time() + chart_data["offset"]
BuildClock ==
  /\ chart_thread.pc = "events"
  /\ chart_data.present
  /\ chart_thread' = [chart_thread EXCEPT !.pc = "build",
                                          !.start_time = now + chart_data.offset]
  /\ UNCHANGED <<now, chart_data, chart_playing, counter, miss_checker, notes,
                 pending_notes, target_value, sound_rules_lock, pass, results,
                 chart_log>>
  /\ UNCHANGED control_vars

\* _chart_loop: `with pending_lock:` build both queues and the pending
\* notes from the events and the start time read before
BuildQueues ==
  /\ chart_thread.pc = "build"
  /\ pending_lock = None
  /\ LET events == chart_thread.events
         start_time == chart_thread.start_time
         n == Len(events)
         hit_time(i) == start_time + events[i].time
     IN /\ chart_thread' =
             [chart_thread EXCEPT
                !.pc = "tick", !.events = <<>>,
                !.visual_queue =
                   {[time |-> visual_time(hit_time(i)),
                     id |-> counter + 2 * (i - 1), evt |-> events[i],
                     note |-> Len(notes) + i] : i \in 1..n},
                !.activation_queue =
                   {[time |-> hit_time(i),
                     id |-> counter + 2 * (i - 1) + 1, evt |-> events[i],
                     note |-> Len(notes) + i] : i \in 1..n}]
        /\ counter' = counter + 2 * n
        /\ notes' = notes \o [i \in 1..n |-> NewNote(events[i], hit_time(i))]
        /\ pending_notes' = pending_notes \o [i \in 1..n |-> Len(notes) + i]
        /\ results' = results \o [i \in 1..n |-> <<>>]
  /\ UNCHANGED <<now, chart_data, chart_playing, miss_checker, target_value,
                 sound_rules_lock, pass, chart_log>>
  /\ UNCHANGED control_vars

\* the "chart_event" emission of one popped visual entry
ChartEvent(e, start_time, t) ==
  [event |-> "chart_event", note |-> e.note, utensil |-> e.evt.utensil,
   target |-> e.evt.target, event_time |-> start_time + e.evt.time,
   server_time |-> t, duration |-> e.evt.duration,
   is_hold |-> e.evt.duration > HOLD_THRESHOLD, due |-> e.time,
   id |-> e.id, start |-> start_time]

\* the "target_active" emission of one popped activation entry
TargetActive(e, t) ==
  [event |-> "target_active", note |-> e.note, utensil |-> e.evt.utensil,
   target |-> e.evt.target, event_time |-> t, due |-> e.time,
   id |-> e.id, start |-> e.time - e.evt.time, epoch |-> chart_thread.bound]

\* `while q and q[0][0] <= now`: the loop over the queue q goes on
Due(q, t) == q # {} /\ HeapMin(q).time <= t

\* (variant of Stage: `if` in place of the two inner `while`: one entry of
\* each queue in an iteration)
StageOnce(stage, visual_queue, activation_queue, t) ==
  IF stage = "tick" /\ Due(visual_queue, t) THEN "visual"
  ELSE IF stage \in {"tick", "visual"} /\ Due(activation_queue, t)
    THEN "activation"
  ELSE "tick"

\* where the iteration goes on from the stage it has done: the visual loop
\* until no entry is due, then the activation loop, then the sleep
Stage(stage, visual_queue, activation_queue, t) ==
  IF stage \in {"tick", "visual"} /\ Due(visual_queue, t) THEN "visual"
  ELSE IF Due(activation_queue, t) THEN "activation"
  ELSE "tick"

\* the thread after a step of the iteration
Resume(thread, stage) ==
  LET pc == Stage(stage, thread.visual_queue, thread.activation_queue,
                  thread.now)
  IN [thread EXCEPT !.pc = pc, !.now = IF pc = "tick" THEN 0 ELSE @]

\* (variant of ChartTick: the loop condition does not test chart_playing)
ChartTickUnstoppable ==
  /\ chart_thread.pc = "tick"
  /\ chart_thread.visual_queue # {} \/ chart_thread.activation_queue # {}
  /\ Due(chart_thread.visual_queue, now)
       \/ Due(chart_thread.activation_queue, now)
  /\ chart_thread' = Resume([chart_thread EXCEPT !.now = now], "tick")
  /\ UNCHANGED <<now, chart_data, chart_playing, counter, miss_checker, notes,
                 pending_notes, target_value, sound_rules_lock, pass, results,
                 chart_log>>
  /\ UNCHANGED control_vars

\* _chart_loop: the loop condition holds and the clock is read; the
\* iterations in which no entry is due only sleep
ChartTick ==
  /\ chart_thread.pc = "tick"
  /\ chart_playing
  /\ chart_thread.visual_queue # {} \/ chart_thread.activation_queue # {}
  /\ Due(chart_thread.visual_queue, now)
       \/ Due(chart_thread.activation_queue, now)
  /\ chart_thread' = Resume([chart_thread EXCEPT !.now = now], "tick")
  /\ UNCHANGED <<now, chart_data, chart_playing, counter, miss_checker, notes,
                 pending_notes, target_value, sound_rules_lock, pass, results,
                 chart_log>>
  /\ UNCHANGED control_vars

\* _chart_loop: heappop(visual_queue) and the "chart_event" emission
ChartVisual ==
  /\ chart_thread.pc = "visual"
  /\ LET e == HeapMin(chart_thread.visual_queue)
     IN /\ chart_log' = Append(chart_log,
             ChartEvent(e, chart_thread.start_time, chart_thread.now))
        /\ chart_thread' =
             Resume([chart_thread EXCEPT !.visual_queue = @ \ {e}], "visual")
  /\ UNCHANGED <<now, chart_data, chart_playing, counter, miss_checker, notes,
                 pending_notes, target_value, sound_rules_lock, pass, results>>
  /\ UNCHANGED control_vars

\* _chart_loop: heappop(activation_queue)
ChartPop ==
  /\ chart_thread.pc = "activation"
  /\ LET e == HeapMin(chart_thread.activation_queue)
     IN chart_thread' = [chart_thread EXCEPT !.activation_queue = @ \ {e},
                                             !.popped = {e}, !.pc = "bind"]
  /\ UNCHANGED <<now, chart_data, chart_playing, counter, miss_checker, notes,
                 pending_notes, target_value, sound_rules_lock, pass, results,
                 chart_log>>
  /\ UNCHANGED control_vars

\* _chart_loop: with sound_rules_lock: bind the target of the popped event
ChartBind ==
  /\ chart_thread.pc = "bind"
  /\ sound_rules_lock = None
  /\ \E e \in chart_thread.popped :
       target_value' = [target_value EXCEPT ![e.evt.utensil] = e.evt.target]
  /\ chart_thread' = [chart_thread EXCEPT !.pc = "active", !.bound = epoch]
  /\ UNCHANGED <<now, chart_data, chart_playing, counter, miss_checker, notes,
                 pending_notes, sound_rules_lock, pass, results, chart_log>>
  /\ UNCHANGED control_vars

\* _chart_loop: the "target_active" emission, after the lock is released
ChartActive ==
  /\ chart_thread.pc = "active"
  /\ \E e \in chart_thread.popped :
       chart_log' = Append(chart_log, TargetActive(e, chart_thread.now))
  /\ chart_thread' = Resume([chart_thread EXCEPT !.popped = {}], "activation")
  /\ UNCHANGED <<now, chart_data, chart_playing, counter, miss_checker, notes,
                 pending_notes, target_value, sound_rules_lock, pass, results>>
  /\ UNCHANGED control_vars

\* (variant of ChartExit: the loop condition tests the visual queue only)
ChartExitVisualOnly ==
  /\ chart_thread.pc = "tick"
  /\ ~(chart_playing /\ chart_thread.visual_queue # {})
  /\ chart_playing' = FALSE
  /\ chart_thread' = [chart_thread EXCEPT !.pc = "finished"]
  /\ UNCHANGED <<now, chart_data, counter, miss_checker, notes, pending_notes,
                 target_value, sound_rules_lock, pass, results, chart_log>>
  /\ UNCHANGED control_vars

\* _chart_loop: the loop condition fails; chart_playing = False is written,
\* the thread still alive
ChartExit ==
  /\ chart_thread.pc = "tick"
  /\ ~(chart_playing /\
        (chart_thread.visual_queue # {} \/ chart_thread.activation_queue # {}))
  /\ chart_playing' = FALSE
  /\ chart_thread' = [chart_thread EXCEPT !.pc = "finished"]
  /\ UNCHANGED <<now, chart_data, counter, miss_checker, notes, pending_notes,
                 target_value, sound_rules_lock, pass, results, chart_log>>
  /\ UNCHANGED control_vars

\* _chart_loop returns after the last print and the thread ends: is_alive()
\* turns False
ChartEnd ==
  /\ chart_thread.pc = "finished"
  /\ chart_thread' = [chart_thread EXCEPT !.pc = "done"]
  /\ UNCHANGED <<now, chart_data, chart_playing, counter, miss_checker, notes,
                 pending_notes, target_value, sound_rules_lock, pass, results,
                 chart_log>>
  /\ UNCHANGED control_vars

\* ------------------------------------------------------------------------
\* Miss watchdog (game_logic.note_miss_checker)
\* ------------------------------------------------------------------------
MissMark(note) ==
  IF ~note.is_hold THEN [note EXCEPT !.hit = TRUE]
  ELSE [note EXCEPT !.hold_broken = TRUE]

MissResult(note, t) ==
  [result |-> "miss", note_type |-> IF note.is_hold THEN "hold" ELSE "tap",
   scheduled |-> note.hit_time, time |-> t, by |-> "watchdog"]

\* position in pending_notes of the first note after position `at` that the
\* scan with the time t finalizes; 0 when it finds none
FirstDue(at, t) ==
  LET ks == {k \in (at + 1)..Len(pending_notes) :
               MissDue(notes[pending_notes[k]], t)}
  IN IF ks = {} THEN 0 ELSE CHOOSE k \in ks : \A j \in ks : k <= j

\* note_miss_checker: the loop test and the clock; the iterations in which
\* no note is overdue only take the lock, release it and sleep
MissCheck(w) ==
  /\ miss_checker[w] = "run"
  /\ scan[w].pc = "sleep"
  /\ IF chart_playing
     THEN /\ FirstDue(0, now) # 0
          /\ scan' = [scan EXCEPT ![w] = [pc |-> "scan", now |-> now, at |-> 0]]
          /\ UNCHANGED miss_checker
     ELSE /\ miss_checker' = [miss_checker EXCEPT ![w] = "done"]
          /\ UNCHANGED scan
  /\ UNCHANGED <<now, chart_data, chart_playing, chart_thread, counter, notes,
                 pending_notes, target_value, sound_rules_lock, pass, results,
                 chart_log>>
  /\ UNCHANGED <<miss_checker_thread, restart, calls, epoch, last_call,
                 evaluation, locking, mixing_bowl_state,
                 config, threshold>>

\* note_miss_checker: pending_lock is taken (or kept) and the scan goes to
\* the next overdue note and sets its flag; with none left the lock is
\* released
MissScan(w) ==
  /\ scan[w].pc = "scan"
  /\ pending_lock \in {None, w}
  /\ LET k == FirstDue(scan[w].at, scan[w].now)
     IN IF k = 0
        THEN /\ scan' = [scan EXCEPT ![w] = [pc |-> "sleep", now |-> 0, at |-> 0]]
             /\ UNCHANGED notes
        ELSE /\ scan' = [scan EXCEPT ![w].pc = "emit", ![w].at = k]
             /\ notes' = [notes EXCEPT ![pending_notes[k]] = MissMark(@)]
  /\ UNCHANGED <<now, chart_data, chart_playing, chart_thread, counter,
                 miss_checker, pending_notes, target_value, sound_rules_lock,
                 pass, results, chart_log>>
  /\ UNCHANGED <<miss_checker_thread, restart, calls, epoch, last_call,
                 evaluation, locking, mixing_bowl_state,
                 config, threshold>>

\* note_miss_checker: the "miss" emission of the note just marked, inside
\* the lock
MissEmit(w) ==
  /\ scan[w].pc = "emit"
  /\ LET i == pending_notes[scan[w].at]
     IN results' = [results EXCEPT ![i] =
                      Append(@, MissResult(notes[i], scan[w].now))]
  /\ scan' = [scan EXCEPT ![w].pc = "scan"]
  /\ UNCHANGED <<now, chart_data, chart_playing, chart_thread, counter,
                 miss_checker, notes, pending_notes, target_value,
                 sound_rules_lock, pass, chart_log>>
  /\ UNCHANGED <<miss_checker_thread, restart, calls, epoch, last_call,
                 evaluation, locking, mixing_bowl_state,
                 config, threshold>>

\* ------------------------------------------------------------------------
\* Judgment pass (game_logic.check_note_hits)
\* ------------------------------------------------------------------------
\* int(x / y) for y > 0: truncation toward zero
TruncDiv(x, y) == IF x >= 0 THEN x \div y ELSE -((-x) \div y)

\* int(dt * 1000), dt in ticks
accuracy_ms(dt) == TruncDiv(dt * 1000, TicksPerSecond)

\* int((held_duration / duration) * 100)
completion_percent(held, duration) == TruncDiv(held * 100, duration)

\* the note the pass p is examining
Cur(p) == notes[pass[p].notes_copy[pass[p].idx]]

\* position in pending_notes of the first n with the key of note (and, when
\* unhit is required, with n["hit"] false); 0 when the loop finds none
FirstKey(note, unhit) ==
  LET match(k) == LET n == notes[pending_notes[k]]
                  IN /\ n.utensil = note.utensil
                     /\ n.hit_time = note.hit_time
                     /\ (unhit => ~n.hit)
      ks == {k \in 1..Len(pending_notes) : match(k)}
  IN IF ks = {} THEN 0 ELSE CHOOSE k \in ks : \A j \in ks : k <= j

\* the note object that the keyed update "for n in pending_notes: if key
\* matches: ...; break" writes to; 0 when the loop finds none
KeyedNote(note, unhit) ==
  LET k == FirstKey(note, unhit)
  IN IF k = 0 THEN 0 ELSE pending_notes[k]

NextNote(p) ==
  [pass[p] EXCEPT !.idx = @ + 1, !.pc = "loop", !.act = None,
                  !.condition_met = FALSE, !.key = 0, !.step = 0]

\* (variant of TooEarly: the early test dropped)
TooEarlyNever(dt) == FALSE

\* "too early": the reading precedes the hit window of the note
TooEarly(dt) == dt < -HIT_WINDOW

\* (variant of HoldPhase: the maintain phase samples on every reading)
HoldPhaseUnthrottled(note, t, condition_met) ==
  LET dt == t - note.hit_time
  IN IF ~note.hold_started THEN
       IF TooEarly(dt) THEN None
       ELSE IF condition_met THEN "hold_start" ELSE None
     ELSE IF note.hold_active /\ t < note.hold_end_time THEN
       IF ~condition_met THEN "hold_break" ELSE "refresh"
     ELSE IF note.hold_active /\ t >= note.hold_end_time THEN
       IF condition_met \/ (t - note.hold_end_time) < HOLD_GRACE_PERIOD
       THEN "hold_complete" ELSE "hold_break_end"
     ELSE None

\* what the hold branch decides for a note from its flags, the pass's time t
\* and the evaluated condition: the transition to perform, or None
HoldPhase(note, t, condition_met) ==
  LET dt == t - note.hit_time
  IN IF ~note.hold_started THEN
       IF TooEarly(dt) THEN None
       ELSE IF condition_met THEN "hold_start" ELSE None
     ELSE IF note.hold_active /\ t < note.hold_end_time THEN
       IF note.last_check_time # NoTime /\ note.last_check_time # 0
          /\ (t - note.last_check_time) >= HOLD_CHECK_INTERVAL
       THEN IF ~condition_met THEN "hold_break" ELSE "refresh"
       ELSE None
     ELSE IF note.hold_active /\ t >= note.hold_end_time THEN
       IF condition_met \/ (t - note.hold_end_time) < HOLD_GRACE_PERIOD
       THEN "hold_complete" ELSE "hold_break_end"
     ELSE None

\* the assignments each transition performs on the matching pending note,
\* in the order of the source
Assign(field, value) == [field |-> field, value |-> value]
HoldWrites(act, t) ==
  CASE act = "hold_start" ->
         <<Assign("hold_started", TRUE), Assign("hold_active", TRUE),
           Assign("last_check_time", t)>>
    [] act = "hold_break" ->
         <<Assign("hold_active", FALSE), Assign("hold_broken", TRUE)>>
    [] act = "refresh" -> <<Assign("last_check_time", t)>>
    [] act = "hold_complete" ->
         <<Assign("hold_active", FALSE), Assign("hit", TRUE)>>
    [] act = "hold_break_end" ->
         <<Assign("hold_active", FALSE), Assign("hold_broken", TRUE)>>

\* (variant of HoldResult: the completion of a late release is computed
\* from the expected duration instead of pinned)
HoldResultComputed(act, note, t) ==
  CASE act = "hold_start" ->
         [result |-> "hold_start", note_type |-> "hold", time |-> t,
          scheduled |-> note.hit_time, duration |-> note.duration,
          accuracy_ms |-> accuracy_ms(t - note.hit_time)]
    [] act = "hold_break" ->
         [result |-> "hold_break", note_type |-> "hold", time |-> t,
          scheduled |-> note.hit_time, expected_duration |-> note.duration,
          held_duration |-> t - note.hit_time,
          completion_percent |->
            completion_percent(t - note.hit_time, note.duration)]
    [] act = "hold_complete" ->
         [result |-> "hold_complete", note_type |-> "hold", time |-> t,
          scheduled |-> note.hit_time, duration |-> note.duration]
    [] act = "hold_break_end" ->
         [result |-> "hold_break", note_type |-> "hold", time |-> t,
          scheduled |-> note.hit_time, expected_duration |-> note.duration,
          held_duration |-> note.duration,
          completion_percent |->
            completion_percent(note.duration, note.duration)]

\* the "note_result" each transition emits
HoldResult(act, note, t) ==
  CASE act = "hold_start" ->
         [result |-> "hold_start", note_type |-> "hold", time |-> t,
          scheduled |-> note.hit_time, duration |-> note.duration,
          accuracy_ms |-> accuracy_ms(t - note.hit_time)]
    [] act = "hold_break" ->
         [result |-> "hold_break", note_type |-> "hold", time |-> t,
          scheduled |-> note.hit_time, expected_duration |-> note.duration,
          held_duration |-> t - note.hit_time,
          completion_percent |->
            completion_percent(t - note.hit_time, note.duration)]
    [] act = "hold_complete" ->
         [result |-> "hold_complete", note_type |-> "hold", time |-> t,
          scheduled |-> note.hit_time, duration |-> note.duration]
    [] act = "hold_break_end" ->
         [result |-> "hold_break", note_type |-> "hold", time |-> t,
          scheduled |-> note.hit_time, expected_duration |-> note.duration,
          held_duration |-> note.duration, completion_percent |-> 99]

TapResult(note, t) ==
  [result |-> "hit", note_type |-> "tap", time |-> t,
   scheduled |-> note.hit_time, accuracy_ms |-> accuracy_ms(t - note.hit_time)]

\* the clean-up at the end of a pass removes n
Pruned(n, t) ==
  \/ (~n.is_hold /\ (n.hit \/ t > n.hit_time + HIT_WINDOW))
  \/ (n.is_hold /\ (n.hit \/ n.hold_broken))

\* the calls are interchangeable: a call takes the first free slot
IdleBefore(q, p) == q = "p1" /\ p = "p2"

\* on_message receives a payload and extracts the utensil and the snapshot:
\* for the bowl it detects the direction, keeps it and adds it to the
\* snapshot. The message goes on with the reading r
PassMessage(p, r) ==
  /\ pass[p].pc = "idle"
  /\ \A q \in Passes : IdleBefore(q, p) => pass[q].pc # "idle"
  /\ \A i \in DOMAIN results : Len(results[i]) < MaxResults
  /\ \E m \in Payloads \cup PanPayloads :
       /\ r = on_message(m, mixing_bowl_state)
       /\ mixing_bowl_state' = KeptAfter(m, mixing_bowl_state)
  /\ pass' = [pass EXCEPT ![p] = [IdlePass EXCEPT !.pc = "message",
                                                  !.reading = r]]
  /\ UNCHANGED <<now, chart_data, chart_playing, chart_thread, counter,
                 miss_checker, notes, pending_notes, target_value,
                 sound_rules_lock, results, chart_log>>
  /\ UNCHANGED <<miss_checker_thread, restart, calls, epoch, last_call,
                 evaluation, locking, scan, config,
                 threshold>>

\* with sound_rules_lock: on_message waits for the lock, tests the sound of
\* the utensil under it and releases it; the call of check_note_hits follows
PassSound(p) ==
  /\ pass[p].pc = "message"
  /\ sound_rules_lock = None
  /\ pass' = [pass EXCEPT ![p].pc = "called"]
  /\ UNCHANGED mixing_bowl_state
  /\ UNCHANGED <<now, chart_data, chart_playing, chart_thread, counter,
                 miss_checker, notes, pending_notes, target_value,
                 sound_rules_lock, results, chart_log>>
  /\ UNCHANGED <<miss_checker_thread, restart, calls, epoch, last_call,
                 evaluation, locking, scan, config,
                 threshold>>

\* check_note_hits(utensil, sensor_data, socketio) is called: read the time
PassBegin(p) ==
  /\ pass[p].pc = "called"
  /\ pass' = [pass EXCEPT ![p].pc = "copy", ![p].now = now]
  /\ UNCHANGED mixing_bowl_state
  /\ UNCHANGED <<now, chart_data, chart_playing, chart_thread, counter,
                 miss_checker, notes, pending_notes, target_value,
                 sound_rules_lock, results, chart_log>>
  /\ UNCHANGED <<miss_checker_thread, restart, calls, epoch, last_call,
                 evaluation, locking, scan, config,
                 threshold>>

\* with pending_lock: notes_copy = list(pending_notes)
PassCopy(p) ==
  /\ pass[p].pc = "copy"
  /\ pending_lock = None
  /\ pass' = [pass EXCEPT ![p].pc = "loop", ![p].notes_copy = pending_notes,
                          ![p].idx = 1]
  /\ UNCHANGED <<now, chart_data, chart_playing, chart_thread, counter,
                 miss_checker, notes, pending_notes, target_value,
                 sound_rules_lock, results, chart_log>>
  /\ UNCHANGED control_vars

\* (variant of PassNote: a tap that is already judged is not skipped)
PassNoteJudgedAgain(p) ==
  /\ pass[p].pc = "loop"
  /\ pass[p].idx <= Len(pass[p].notes_copy)
  /\ LET note == Cur(p)
         dt == pass[p].now - note.hit_time
     IN pass' = [pass EXCEPT ![p] =
          IF note.utensil # pass[p].reading.utensil THEN NextNote(p)
          ELSE IF note.hold_broken THEN NextNote(p)
          ELSE IF ~note.is_hold
               THEN IF TooEarly(dt) THEN NextNote(p)
                    ELSE [pass[p] EXCEPT !.pc = "tap"]
               ELSE [pass[p] EXCEPT !.pc = "hold"]]
  /\ UNCHANGED <<now, chart_data, chart_playing, chart_thread, counter,
                 miss_checker, notes, pending_notes, target_value,
                 sound_rules_lock, results, chart_log>>
  /\ UNCHANGED control_vars

\* head of the loop body: the skip tests and the too-early test of a tap
PassNote(p) ==
  /\ pass[p].pc = "loop"
  /\ pass[p].idx <= Len(pass[p].notes_copy)
  /\ LET note == Cur(p)
         dt == pass[p].now - note.hit_time
     IN pass' = [pass EXCEPT ![p] =
          IF note.utensil # pass[p].reading.utensil THEN NextNote(p)
          ELSE IF note.hit /\ ~note.is_hold THEN NextNote(p)
          ELSE IF note.hold_broken THEN NextNote(p)
          ELSE IF ~note.is_hold
               THEN IF TooEarly(dt) THEN NextNote(p)
                    ELSE [pass[p] EXCEPT !.pc = "tap"]
               ELSE [pass[p] EXCEPT !.pc = "hold"]]
  /\ UNCHANGED <<now, chart_data, chart_playing, chart_thread, counter,
                 miss_checker, notes, pending_notes, target_value,
                 sound_rules_lock, results, chart_log>>
  /\ UNCHANGED control_vars

\* (variant of PassTap: the condition is evaluated on the target bound to
\* the utensil, as on_message does for the sound)
PassTapBound(p) ==
  /\ pass[p].pc = "tap"
  /\ sound_rules_lock = None
  /\ LET note == Cur(p)
         u == pass[p].reading.utensil
     IN IF should_play(u, pass[p].reading.data, target_value[u], Threshold(u))
        THEN /\ sound_rules_lock' = p
             /\ pass' = [pass EXCEPT ![p].pc = "tap_hit"]
        ELSE /\ pass' = [pass EXCEPT ![p] = NextNote(p)]
             /\ UNCHANGED sound_rules_lock
  /\ UNCHANGED <<now, chart_data, chart_playing, chart_thread, counter,
                 miss_checker, notes, pending_notes, target_value, results,
                 chart_log>>
  /\ UNCHANGED control_vars

\* tap: take sound_rules_lock and evaluate the condition
PassTap(p) ==
  /\ pass[p].pc = "tap"
  /\ sound_rules_lock = None
  /\ LET note == Cur(p)
         u == pass[p].reading.utensil
     IN IF should_play(u, pass[p].reading.data, note.target, Threshold(u))
        THEN /\ sound_rules_lock' = p
             /\ pass' = [pass EXCEPT ![p].pc = "tap_hit"]
        ELSE /\ pass' = [pass EXCEPT ![p] = NextNote(p)]
             /\ UNCHANGED sound_rules_lock
  /\ UNCHANGED <<now, chart_data, chart_playing, chart_thread, counter,
                 miss_checker, notes, pending_notes, target_value, results,
                 chart_log>>
  /\ UNCHANGED control_vars

\* (variant of PassTapHit: the hit also unsets the binding of the utensil)
PassTapHitUnbinds(p) ==
  /\ pass[p].pc = "tap_hit"
  /\ pending_lock = None
  /\ LET mark(n) == [n EXCEPT !.hit = TRUE]
         i == KeyedNote(Cur(p), TRUE)
     IN notes' = IF i = 0 THEN notes ELSE [notes EXCEPT ![i] = mark(@)]
  /\ target_value' = [target_value EXCEPT ![Cur(p).utensil] = None]
  /\ pass' = [pass EXCEPT ![p].pc = "tap_emit"]
  /\ UNCHANGED <<now, chart_data, chart_playing, chart_thread, counter,
                 miss_checker, pending_notes, sound_rules_lock,
                 results, chart_log>>
  /\ UNCHANGED control_vars

\* tap: with pending_lock, inside sound_rules_lock: mark the first unhit
\* pending note with the key
PassTapHit(p) ==
  /\ pass[p].pc = "tap_hit"
  /\ pending_lock = None
  /\ LET mark(n) == [n EXCEPT !.hit = TRUE]
         i == KeyedNote(Cur(p), TRUE)
     IN notes' = IF i = 0 THEN notes ELSE [notes EXCEPT ![i] = mark(@)]
  /\ pass' = [pass EXCEPT ![p].pc = "tap_emit"]
  /\ UNCHANGED <<now, chart_data, chart_playing, chart_thread, counter,
                 miss_checker, pending_notes, target_value, sound_rules_lock,
                 results, chart_log>>
  /\ UNCHANGED control_vars

\* tap: the "hit" emission, then sound_rules_lock is released
PassTapEmit(p) ==
  /\ pass[p].pc = "tap_emit"
  /\ results' = [results EXCEPT ![pass[p].notes_copy[pass[p].idx]] =
                   Append(@, TapResult(Cur(p), pass[p].now))]
  /\ sound_rules_lock' = None
  /\ pass' = [pass EXCEPT ![p] = NextNote(p)]
  /\ UNCHANGED <<now, chart_data, chart_playing, chart_thread, counter,
                 miss_checker, notes, pending_notes, target_value, chart_log>>
  /\ UNCHANGED control_vars

\* hold: evaluate the condition under sound_rules_lock
PassHold(p) ==
  /\ pass[p].pc = "hold"
  /\ sound_rules_lock = None
  /\ LET u == pass[p].reading.utensil
     IN pass' = [pass EXCEPT
          ![p].pc = "phase",
          ![p].condition_met =
             should_play(u, pass[p].reading.data, Cur(p).target, Threshold(u))]
  /\ UNCHANGED <<now, chart_data, chart_playing, chart_thread, counter,
                 miss_checker, notes, pending_notes, target_value,
                 sound_rules_lock, results, chart_log>>
  /\ UNCHANGED control_vars

\* hold: the phase is picked from hold_started and hold_active, read
\* without a lock; the maintain phase goes on to read last_check_time
PassPhase(p) ==
  /\ pass[p].pc = "phase"
  /\ LET note == Cur(p)
         act == HoldPhase(note, pass[p].now, pass[p].condition_met)
     IN pass' = [pass EXCEPT ![p] =
          IF note.hold_started /\ note.hold_active
             /\ pass[p].now < note.hold_end_time
            THEN [pass[p] EXCEPT !.pc = "throttle"]
          ELSE IF act = None THEN NextNote(p)
          ELSE [pass[p] EXCEPT !.pc = "mark", !.act = act]]
  /\ UNCHANGED <<now, chart_data, chart_playing, chart_thread, counter,
                 miss_checker, notes, pending_notes, target_value,
                 sound_rules_lock, results, chart_log>>
  /\ UNCHANGED control_vars

\* hold, maintain phase: last_check_time is read, without a lock, and the
\* sample is taken or not
PassThrottle(p) ==
  /\ pass[p].pc = "throttle"
  /\ LET seen == [Cur(p) EXCEPT !.hold_started = TRUE, !.hold_active = TRUE]
         act == HoldPhase(seen, pass[p].now, pass[p].condition_met)
     IN pass' = [pass EXCEPT ![p] =
          IF act = None THEN NextNote(p)
          ELSE [pass[p] EXCEPT !.pc = "mark", !.act = act]]
  /\ UNCHANGED <<now, chart_data, chart_playing, chart_thread, counter,
                 miss_checker, notes, pending_notes, target_value,
                 sound_rules_lock, results, chart_log>>
  /\ UNCHANGED control_vars

\* hold: the keyed write under pending_lock, one assignment at a time (the
\* readers of these fields hold no lock)
PassMark(p) ==
  /\ pass[p].pc = "mark"
  /\ pending_lock \in {None, p}
  /\ LET writes == HoldWrites(pass[p].act, pass[p].now)
         i == IF pass[p].step = 0 THEN KeyedNote(Cur(p), FALSE)
              ELSE pass[p].key
         k == pass[p].step + 1
     IN /\ notes' = IF i = 0 THEN notes
                    ELSE [notes EXCEPT ![i][writes[k].field] = writes[k].value]
        /\ pass' = [pass EXCEPT ![p] =
             IF i # 0 /\ k < Len(writes)
               THEN [pass[p] EXCEPT !.key = i, !.step = k]
             ELSE IF pass[p].act = "refresh" THEN NextNote(p)
             ELSE [pass[p] EXCEPT !.pc = "emit", !.key = 0, !.step = 0]]
  /\ UNCHANGED <<now, chart_data, chart_playing, chart_thread, counter,
                 miss_checker, pending_notes, target_value, sound_rules_lock,
                 results, chart_log>>
  /\ UNCHANGED control_vars

\* hold: the emission that follows the write
PassEmit(p) ==
  /\ pass[p].pc = "emit"
  /\ results' = [results EXCEPT ![pass[p].notes_copy[pass[p].idx]] =
                   Append(@, HoldResult(pass[p].act, Cur(p), pass[p].now))]
  /\ pass' = [pass EXCEPT ![p] = NextNote(p)]
  /\ UNCHANGED <<now, chart_data, chart_playing, chart_thread, counter,
                 miss_checker, notes, pending_notes, target_value,
                 sound_rules_lock, chart_log>>
  /\ UNCHANGED control_vars

\* end of the pass: clean up pending_notes
PassPrune(p) ==
  /\ pass[p].pc = "loop"
  /\ pass[p].idx > Len(pass[p].notes_copy)
  /\ pending_lock = None
  /\ LET keep(i) == ~Pruned(notes[i], pass[p].now)
     IN pending_notes' = SelectSeq(pending_notes, keep)
  /\ pass' = [pass EXCEPT ![p] = IdlePass]
  /\ UNCHANGED <<now, chart_data, chart_playing, chart_thread, counter,
                 miss_checker, notes, target_value, sound_rules_lock, results,
                 chart_log>>
  /\ UNCHANGED control_vars

\* ------------------------------------------------------------------------
\* Control calls (chart_manager.py): start, stop, restart, and the clock of
\* the timers they race with
\* ------------------------------------------------------------------------
\* the charts the control calls are given
ControlCharts == {Chart(ChartTap), Chart(ChartLateTap), Chart(ChartTapChord)}

MainControl == Boot(ControlCharts)

\* _chart_loop with chart_data = None: chart_data["events"] or
\* chart_data["offset"] raises and the thread dies, chart_playing left as it
\* is
BuildCrash ==
  /\ \/ /\ chart_thread.pc = "countdown"
        /\ chart_thread.count = 1
        /\ now >= chart_thread.wake
     \/ chart_thread.pc = "events"
  /\ ~chart_data.present
  /\ chart_thread' = [chart_thread EXCEPT !.pc = "done", !.count = 0,
                                          !.events = <<>>]
  /\ UNCHANGED <<now, chart_data, chart_playing, counter, miss_checker, notes,
                 pending_notes, target_value, sound_rules_lock, pass, results,
                 chart_log>>
  /\ UNCHANGED control_vars

\* start_chart_playback called again after boot, with any chart or None
StartCall(c) ==
  /\ chart_thread.pc # "none"
  /\ calls < MaxCalls
  /\ start_chart_playback(c)
  /\ calls' = calls + 1
  /\ last_call' = Call("start", c)
  /\ UNCHANGED <<restart, epoch>>

\* stop_chart_playback()
StopCall ==
  /\ chart_thread.pc # "none"
  /\ calls < MaxCalls
  /\ chart_playing' = FALSE
  /\ calls' = calls + 1
  /\ last_call' = Call("stop", NoChart)
  /\ UNCHANGED <<now, chart_data, chart_thread, counter, miss_checker, notes,
                 pending_notes, target_value, sound_rules_lock, pass, results,
                 chart_log, miss_checker_thread, restart, epoch>>
  /\ UNCHANGED <<evaluation, locking, scan,
                 mixing_bowl_state,
                 config, threshold>>

\* restart_chart_playback(socketio, loaded_chart_data) is called:
\* chart_playing = False, then join the chart thread
RestartCall(c) ==
  /\ chart_thread.pc # "none"
  /\ calls < MaxCalls
  /\ restart.pc = "idle"
  /\ chart_playing' = FALSE
  /\ restart' = [pc |-> "join_chart", chart |-> c, deadline |-> now + JoinTimeout]
  /\ calls' = calls + 1
  /\ last_call' = Call("restart", c)
  /\ UNCHANGED <<now, chart_data, chart_thread, counter, miss_checker, notes,
                 pending_notes, target_value, sound_rules_lock, pass, results,
                 chart_log, miss_checker_thread, epoch>>
  /\ UNCHANGED <<evaluation, locking, scan,
                 mixing_bowl_state,
                 config, threshold>>

\* chart_thread.join(timeout=2.0) returns: the thread has ended or the
\* timeout has elapsed; then join the latest watchdog
RestartJoinChart ==
  /\ restart.pc = "join_chart"
  /\ ~ThreadAlive \/ now >= restart.deadline
  /\ restart' = [restart EXCEPT !.pc = "join_checker",
                                !.deadline = now + JoinTimeout]
  /\ UNCHANGED <<now, chart_data, chart_playing, chart_thread, counter,
                 miss_checker, notes, pending_notes, target_value,
                 sound_rules_lock, pass, results, chart_log,
                 miss_checker_thread, calls, epoch, last_call>>
  /\ UNCHANGED <<evaluation, locking, scan,
                 mixing_bowl_state,
                 config, threshold>>

\* miss_checker_thread.join(timeout=2.0) returns
RestartJoinChecker ==
  /\ restart.pc = "join_checker"
  /\ \/ miss_checker_thread = None
     \/ miss_checker_thread # None /\ miss_checker[miss_checker_thread] # "run"
     \/ now >= restart.deadline
  /\ restart' = [restart EXCEPT !.pc = "clear"]
  /\ UNCHANGED <<now, chart_data, chart_playing, chart_thread, counter,
                 miss_checker, notes, pending_notes, target_value,
                 sound_rules_lock, pass, results, chart_log,
                 miss_checker_thread, calls, epoch, last_call>>
  /\ UNCHANGED <<evaluation, locking, scan,
                 mixing_bowl_state,
                 config, threshold>>

\* with pending_lock: pending_notes.clear()
RestartClear ==
  /\ restart.pc = "clear"
  /\ pending_lock = None
  /\ pending_notes' = <<>>
  /\ restart' = [restart EXCEPT !.pc = "reset"]
  /\ UNCHANGED <<now, chart_data, chart_playing, chart_thread, counter,
                 miss_checker, notes, target_value, sound_rules_lock, pass,
                 results, chart_log, miss_checker_thread, calls, epoch,
                 last_call>>
  /\ UNCHANGED <<evaluation, locking, scan,
                 mixing_bowl_state,
                 config, threshold>>

\* with sound_rules_lock: every target_value = None; then time.sleep(0.1)
RestartReset ==
  /\ restart.pc = "reset"
  /\ sound_rules_lock = None
  /\ target_value' = [u \in Utensils |-> None]
  /\ restart' = [restart EXCEPT !.pc = "sleep", !.deadline = now + SettleDelay]
  /\ epoch' = epoch + 1
  /\ UNCHANGED <<now, chart_data, chart_playing, chart_thread, counter,
                 miss_checker, notes, pending_notes, sound_rules_lock, pass,
                 results, chart_log, miss_checker_thread, calls,
                 last_call>>
  /\ UNCHANGED <<evaluation, locking, scan,
                 mixing_bowl_state,
                 config, threshold>>

\* the sleep is over: start_chart_playback(socketio, loaded_chart_data), and
\* restart_chart_playback returns
RestartStart ==
  /\ restart.pc = "sleep"
  /\ now >= restart.deadline
  /\ start_chart_playback(restart.chart)
  /\ restart' = NoRestart
  /\ last_call' = Call("start", restart.chart)
  /\ UNCHANGED <<calls, epoch>>

\* restart_chart_playback is blocked in a join or in its sleep
RestartWaiting ==
  \/ restart.pc = "idle"
  \/ restart.pc = "join_chart" /\ ThreadAlive /\ now < restart.deadline
  \/ /\ restart.pc = "join_checker"
     /\ miss_checker_thread # None
     /\ miss_checker[miss_checker_thread] = "run"
     /\ now < restart.deadline
  \/ restart.pc = "sleep" /\ now < restart.deadline

\* the times at which a timer of some thread expires: a sleep of the
\* countdown, a queue entry, a join or the sleep of restart, and the first
\* tick after the hit window of a pending note
Deadlines ==
  (IF chart_thread.pc = "countdown" THEN {chart_thread.wake} ELSE {})
  \cup (IF chart_thread.pc = "tick"
        THEN {e.time : e \in chart_thread.visual_queue
                               \cup chart_thread.activation_queue}
        ELSE {})
  \cup (IF restart.pc \in {"join_chart", "join_checker", "sleep"}
        THEN {restart.deadline} ELSE {})
  \cup {notes[i].hit_time + HIT_WINDOW + 1 : i \in Range(pending_notes)}

\* the clock moves to the next expiry, once every thread is blocked
Elapse ==
  /\ ChartThreadWaiting
  /\ WatchdogWaiting
  /\ RestartWaiting
  /\ \E t \in Deadlines :
       /\ t > now
       /\ \A d \in Deadlines : d > now => t <= d
       /\ now' = t
  /\ UNCHANGED <<chart_data, chart_playing, chart_thread, counter,
                 miss_checker, notes, pending_notes, target_value,
                 sound_rules_lock, pass, results, chart_log>>
  /\ UNCHANGED control_vars

\* ------------------------------------------------------------------------
\* Playback of one chart, started once at boot, with the readings delivered
\* one at a time, as by the single network thread of mqtt_handler: one
\* judgment pass in flight
\* ------------------------------------------------------------------------
Next ==
  \/ Advance
  \/ Main
  \/ Countdown
  \/ BuildEvents
  \/ BuildClock
  \/ BuildQueues
  \/ ChartTick
  \/ ChartVisual
  \/ ChartPop
  \/ ChartBind
  \/ ChartActive
  \/ ChartExit
  \/ ChartEnd
  \/ \E w \in Watchdogs : MissCheck(w)
  \/ \E w \in Watchdogs : MissScan(w)
  \/ \E w \in Watchdogs : MissEmit(w)
  \/ \E r \in Readings : PassMessage("p1", r)
  \/ PassSound("p1")
  \/ PassBegin("p1")
  \/ PassCopy("p1")
  \/ PassNote("p1")
  \/ PassTap("p1")
  \/ PassTapHit("p1")
  \/ PassTapEmit("p1")
  \/ PassHold("p1")
  \/ PassPhase("p1")
  \/ PassThrottle("p1")
  \/ PassMark("p1")
  \/ PassEmit("p1")
  \/ PassPrune("p1")

Spec == Init /\ [][Next]_vars

\* ------------------------------------------------------------------------
\* The same playback on charts with chords: events of one utensil that
\* share their time
\* ------------------------------------------------------------------------
NextChord ==
  \/ Advance
  \/ MainChord
  \/ Countdown
  \/ BuildEvents
  \/ BuildClock
  \/ BuildQueues
  \/ ChartTick
  \/ ChartVisual
  \/ ChartPop
  \/ ChartBind
  \/ ChartActive
  \/ ChartExit
  \/ ChartEnd
  \/ \E w \in Watchdogs : MissCheck(w)
  \/ \E w \in Watchdogs : MissScan(w)
  \/ \E w \in Watchdogs : MissEmit(w)
  \/ \E r \in Readings : PassMessage("p1", r)
  \/ PassSound("p1")
  \/ PassBegin("p1")
  \/ PassCopy("p1")
  \/ PassNote("p1")
  \/ PassTap("p1")
  \/ PassTapHit("p1")
  \/ PassTapEmit("p1")
  \/ PassHold("p1")
  \/ PassPhase("p1")
  \/ PassThrottle("p1")
  \/ PassMark("p1")
  \/ PassEmit("p1")
  \/ PassPrune("p1")

SpecChord == Init /\ [][NextChord]_vars

\* ------------------------------------------------------------------------
\* The same playback with on_message run by two threads at once, on the
\* charts of one event: each message waits for sound_rules_lock before its
\* call of check_note_hits. mqtt_handler starts one network thread
\* (loop_start), under which no two calls overlap: that is Spec
\* ------------------------------------------------------------------------
NextConcurrent ==
  \/ Advance
  \/ MainConcurrent
  \/ Countdown
  \/ BuildEvents
  \/ BuildClock
  \/ BuildQueues
  \/ ChartTick
  \/ ChartVisual
  \/ ChartPop
  \/ ChartBind
  \/ ChartActive
  \/ ChartExit
  \/ ChartEnd
  \/ \E w \in Watchdogs : MissCheck(w)
  \/ \E w \in Watchdogs : MissScan(w)
  \/ \E w \in Watchdogs : MissEmit(w)
  \/ \E p \in Passes, r \in CompleteReadings : PassMessage(p, r)
  \/ \E p \in Passes : PassSound(p)
  \/ \E p \in Passes : PassBegin(p)
  \/ \E p \in Passes : PassCopy(p)
  \/ \E p \in Passes : PassNote(p)
  \/ \E p \in Passes : PassTap(p)
  \/ \E p \in Passes : PassTapHit(p)
  \/ \E p \in Passes : PassTapEmit(p)
  \/ \E p \in Passes : PassHold(p)
  \/ \E p \in Passes : PassPhase(p)
  \/ \E p \in Passes : PassThrottle(p)
  \/ \E p \in Passes : PassMark(p)
  \/ \E p \in Passes : PassEmit(p)
  \/ \E p \in Passes : PassPrune(p)

SpecConcurrent == Init /\ [][NextConcurrent]_vars

\* ------------------------------------------------------------------------
\* The scheduler and the watchdog alone, on charts of several events
\* ------------------------------------------------------------------------
NextChart ==
  \/ Advance
  \/ MainScheduler
  \/ Countdown
  \/ BuildEvents
  \/ BuildClock
  \/ BuildQueues
  \/ ChartTick
  \/ ChartVisual
  \/ ChartPop
  \/ ChartBind
  \/ ChartActive
  \/ ChartExit
  \/ ChartEnd
  \/ \E w \in Watchdogs : MissCheck(w)
  \/ \E w \in Watchdogs : MissScan(w)
  \/ \E w \in Watchdogs : MissEmit(w)

SpecChart == Init /\ [][NextChart]_vars

\* ------------------------------------------------------------------------
\* The scheduler and the watchdog under the control calls: after the start at
\* boot, start, stop and restart are called at the instants at which a timer
\* expires
\* ------------------------------------------------------------------------
NextControl ==
  \/ Elapse
  \/ MainControl
  \/ Countdown
  \/ BuildEvents
  \/ BuildClock
  \/ BuildQueues
  \/ BuildCrash
  \/ ChartTick
  \/ ChartVisual
  \/ ChartPop
  \/ ChartBind
  \/ ChartActive
  \/ ChartExit
  \/ ChartEnd
  \/ \E w \in Watchdogs : MissCheck(w)
  \/ \E w \in Watchdogs : MissScan(w)
  \/ \E w \in Watchdogs : MissEmit(w)
  \/ \E c \in ControlCharts \cup {NoChart} : StartCall(c)
  \/ StopCall
  \/ \E c \in ControlCharts : RestartCall(c)
  \/ RestartJoinChart
  \/ RestartJoinChecker
  \/ RestartClear
  \/ RestartReset
  \/ RestartStart

SpecControl == Init /\ [][NextControl]_vars

\* ------------------------------------------------------------------------
\* Properties
\* ------------------------------------------------------------------------
Taps == {i \in DOMAIN notes : ~notes[i].is_hold}
Holds == {i \in DOMAIN notes : notes[i].is_hold}

\* the number of results of kind res emitted for the note i
Count(i, res) ==
  Cardinality({k \in DOMAIN results[i] : results[i][k].result = res})

\* the kinds of the results emitted for the note i, in order
Kinds(i) == [k \in DOMAIN results[i] |-> results[i][k].result]

IsPrefix(a, b) == Len(a) <= Len(b) /\ \A k \in 1..Len(a) : a[k] = b[k]

AllIdle == \A p \in Passes : pass[p].pc = "idle"

\* C1: a tap note gets at most one outcome notification over judgment passes
\* and watchdog ticks: one "hit" or one "miss", never both, never one twice.
C1_OneOutcomePerTap ==
  \A i \in Taps : Count(i, "hit") + Count(i, "miss") <= 1

\* C2: of the judgment passes whose readings satisfy the same unresolved note,
\* only the first wins: one "hit" for a tap, one "hold_start" for a hold.
C2_FirstReadingWins ==
  \A i \in DOMAIN notes :
    IF notes[i].is_hold THEN Count(i, "hold_start") <= 1
    ELSE Count(i, "hit") <= 1

\* C3: the results of a hold note form a prefix of "miss", of "hold_start,
\* hold_complete" or of "hold_start, hold_break".
C3_HoldResultOrder ==
  \A i \in Holds :
    \/ IsPrefix(Kinds(i), <<"miss">>)
    \/ IsPrefix(Kinds(i), <<"hold_start", "hold_complete">>)
    \/ IsPrefix(Kinds(i), <<"hold_start", "hold_break">>)

\* no loop is left that could report anything: the scheduler loop and every
\* watchdog have returned, and no judgment pass is in flight
Quiescent ==
  /\ chart_thread.pc = "done"
  /\ \A w \in Watchdogs : miss_checker[w] # "run"
  /\ AllIdle

\* C4: a tap note that no reading has hit by the end of its hit window gets
\* a "miss" from the watchdog; stated at the point where no watchdog is left
\* to report it.
C4_MissedTapReported ==
  Quiescent =>
    \A i \in Taps :
      (now > notes[i].hit_time + HIT_WINDOW /\ Count(i, "hit") = 0)
        => Count(i, "miss") >= 1

\* C5: every hold note reaches a final outcome (miss, hold_complete or
\* hold_break) once its hit window and its end time have passed, without
\* further readings; stated at the point where no loop is left to report it.
C5_HoldFinalized ==
  Quiescent =>
    \A i \in Holds :
      (now > notes[i].hit_time + HIT_WINDOW /\ now > notes[i].hold_end_time)
        => Count(i, "miss") + Count(i, "hold_complete")
             + Count(i, "hold_break") >= 1

\* the note has no outcome recorded: PENDING
Pending(n) ==
  IF n.is_hold THEN ~n.hold_started /\ ~n.hit /\ ~n.hold_broken ELSE ~n.hit

\* C6: no step removes from pending_notes a note that is still PENDING or a
\* hold that is still hold_active.
C6_PruneKeepsPending ==
  [][\A i \in Range(pending_notes) \ Range(pending_notes') :
       ~Pending(notes[i]) /\ ~notes[i].hold_active]_vars

\* C7: a "hit" or a "hold_start" is emitted only for a reading inside the
\* symmetric hit window: hit_time - HIT_WINDOW <= now <= hit_time + HIT_WINDOW.
C7_JudgedInsideWindow ==
  \A i \in DOMAIN notes : \A k \in DOMAIN results[i] :
    results[i][k].result \in {"hit", "hold_start"} =>
      /\ notes[i].hit_time - HIT_WINDOW <= results[i][k].time
      /\ results[i][k].time <= notes[i].hit_time + HIT_WINDOW

\* the pass p is at a note of its utensil that its reading is too early for:
\* a tap, or a hold that has not started
ExaminesEarly(p) ==
  /\ pass[p].pc # "idle"
  /\ pass[p].idx \in 1..Len(pass[p].notes_copy)
  /\ Cur(p).utensil = pass[p].reading.utensil
  /\ pass[p].now - Cur(p).hit_time < -HIT_WINDOW
  /\ Cur(p).is_hold => ~Cur(p).hold_started

\* C8: a reading with now - hit_time < -HIT_WINDOW causes no judgment of the
\* note: every step of its pass at that note leaves the note's flags and its
\* results unchanged and moves on, whether or not the condition is satisfied.
C8_TooEarlyNoJudgment ==
  [][\A p \in Passes :
       (ExaminesEarly(p) /\ pass'[p] # pass[p]) =>
         LET i == pass[p].notes_copy[pass[p].idx]
         IN /\ notes'[i] = notes[i]
            /\ results'[i] = results[i]
            /\ \/ pass'[p].pc \in {"hold", "phase"} /\ pass'[p].idx = pass[p].idx
               \/ pass'[p].pc = "loop" /\ pass'[p].idx = pass[p].idx + 1]_vars

\* a pass has gone past a hold that its reading satisfies but is too early
\* for, and the hold is untouched
C8_Witness ==
  \E p \in Passes :
    /\ pass[p].pc = "loop"
    /\ pass[p].idx = 2
    /\ LET i == pass[p].notes_copy[1]
           u == pass[p].reading.utensil
       IN /\ notes[i].is_hold
          /\ notes[i].utensil = u
          /\ should_play(u, pass[p].reading.data, notes[i].target, Threshold(u))
          /\ pass[p].now - notes[i].hit_time < -HIT_WINDOW
          /\ ~notes[i].hold_started
          /\ results[i] = <<>>

\* the reading of the pass p satisfies the condition of the note it is at
Satisfied(p) ==
  should_play(pass[p].reading.utensil, pass[p].reading.data, Cur(p).target,
              Threshold(pass[p].reading.utensil))

\* C9: for an unresolved tap and a reading of its utensil that is not too
\* early and satisfies the condition, the pass marks the note hit and emits
\* one "hit" whose accuracy_ms is now - hit_time in milliseconds, signed.
C9_TapHit ==
  [][\A p \in Passes :
       (/\ pass[p].pc \in {"loop", "tap", "tap_hit", "tap_emit"}
        /\ pass[p].idx \in 1..Len(pass[p].notes_copy)
        /\ Cur(p).utensil = pass[p].reading.utensil
        /\ ~Cur(p).is_hold
        /\ pass[p].pc # "tap_emit" => ~Cur(p).hit
        /\ pass[p].now - Cur(p).hit_time >= -HIT_WINDOW
        /\ Satisfied(p)
        /\ pass'[p] # pass[p]) =>
         LET i == pass[p].notes_copy[pass[p].idx]
             r == results'[i][Len(results'[i])]
         IN CASE pass[p].pc = "loop" -> pass'[p].pc = "tap"
              [] pass[p].pc = "tap" -> pass'[p].pc = "tap_hit"
              [] pass[p].pc = "tap_hit" ->
                   /\ notes'[i].hit
                   /\ results'[i] = results[i]
                   /\ pass'[p].pc = "tap_emit"
              [] pass[p].pc = "tap_emit" ->
                   /\ notes'[i] = notes[i]
                   /\ Len(results'[i]) = Len(results[i]) + 1
                   /\ SubSeq(results'[i], 1, Len(results[i])) = results[i]
                   /\ r.result = "hit"
                   /\ r.accuracy_ms * TicksPerSecond
                        = (pass[p].now - notes[i].hit_time) * 1000]_vars

\* the due times of the visual and of the activation notification of each
\* note's event: of the queue entry, of the entry popped and not yet
\* announced, or of the emission
VisualDue ==
  {<<e.note, e.time>> : e \in chart_thread.visual_queue}
    \cup {<<chart_log[k].note, chart_log[k].due>> :
            k \in {j \in DOMAIN chart_log : chart_log[j].event = "chart_event"}}
ActivationDue ==
  {<<e.note, e.time>> :
     e \in chart_thread.activation_queue \cup chart_thread.popped}
    \cup {<<chart_log[k].note, chart_log[k].due>> :
            k \in {j \in DOMAIN chart_log : chart_log[j].event = "target_active"}}

\* C10: every event has a visual and an activation notification, and the
\* visual one is due exactly LEAD_TIME before the activation one, also when
\* the event is less than LEAD_TIME after the start of the chart.
C10_VisualLeadsActivation ==
  \A i \in DOMAIN notes :
    /\ \E v \in VisualDue : v[1] = i
    /\ \E a \in ActivationDue : a[1] = i
    /\ \A v \in VisualDue, a \in ActivationDue :
         (v[1] = i /\ a[1] = i) =>
           /\ a[2] = notes[i].hit_time
           /\ v[2] = a[2] - LEAD_TIME

\* both notifications of an event less than LEAD_TIME after the start of the
\* chart have been emitted
C10_Witness ==
  \E j, k \in DOMAIN chart_log :
    /\ chart_log[j].event = "chart_event"
    /\ chart_log[k].event = "target_active"
    /\ chart_log[j].note = chart_log[k].note
    /\ chart_log[j].due < chart_thread.start_time
    /\ chart_log[k].due > chart_thread.start_time

\* the number of emissions of kind ev in chart_log for the event of note i
Emitted(i, ev) ==
  Cardinality({k \in DOMAIN chart_log :
                 chart_log[k].event = ev /\ chart_log[k].note = i})

\* C11: within one playback each chart event produces at most one
\* "chart_event" and at most one "target_active", and when the playback is
\* not stopped or restarted exactly one of each once the tick loop has exited.
C11_OneNotificationPerEvent ==
  \A i \in DOMAIN notes :
    /\ Emitted(i, "chart_event") <= 1
    /\ Emitted(i, "target_active") <= 1
    /\ chart_thread.pc \in {"finished", "done"} =>
         /\ Emitted(i, "chart_event") = 1
         /\ Emitted(i, "target_active") = 1

\* the tick loop has exited after a chart of several events, two of them due
\* at the same time
C11_Witness ==
  /\ chart_thread.pc = "done"
  /\ Len(chart_log) >= 6
  /\ \E i, j \in DOMAIN notes : i # j /\ notes[i].hit_time = notes[j].hit_time

\* the step in which a scheduler loop builds its queues and pending notes
BuildsSchedule == chart_thread.pc = "build" /\ chart_thread'.pc = "tick"

\* C12: when the scheduler loop started by restart builds the new schedule,
\* pending_notes is empty and every target_value is unset, whatever state
\* the previous loop and watchdog were in when restart was called.
C12_RestartStartsClean ==
  [][(BuildsSchedule /\ epoch >= 1 /\ chart_thread.epoch = epoch) =>
       /\ pending_notes = <<>>
       /\ \A u \in Utensils : target_value[u] = None]_vars

\* the step in which restart_chart_playback returns
RestartReturns == restart.pc = "sleep" /\ restart'.pc = "idle"

\* C13: when restart returns, a fresh playback of the given chart has been
\* started: chart_playing is set, a new scheduler loop is in its countdown
\* and a new watchdog runs, also when a join has timed out.
C13_RestartAlwaysStarts ==
  [][RestartReturns =>
       /\ chart_playing'
       /\ chart_data' = restart.chart
       /\ chart_thread'.pc = "countdown"
       /\ chart_thread'.count = 5
       /\ chart_thread'.wake = now + CountdownSleep
       /\ chart_thread'.epoch = epoch
       /\ miss_checker_thread' # None
       /\ miss_checker'[miss_checker_thread'] = "run"
       /\ miss_checker[miss_checker_thread'] # "run"]_vars

\* a step of a scheduler loop that was started before the last clear and
\* reset of restart
OldLoopSteps ==
  /\ epoch >= 1
  /\ chart_thread.epoch < epoch
  /\ chart_thread' # chart_thread
  /\ chart_thread'.epoch = chart_thread.epoch

\* C14: once restart has cleared pending_notes and reset the bindings, no
\* scheduler loop of the previous playback inserts notes into pending_notes
\* or writes a target_value.
C14_NoOldLoopAfterRestart ==
  [][OldLoopSteps =>
       /\ pending_notes' = pending_notes
       /\ notes' = notes
       /\ target_value' = target_value]_vars

\* the step of a call of start_chart_playback after boot
StartCalled == calls' # calls /\ last_call'.op = "start"

\* C15: start with an absent chart or while a playback is running has no
\* effect: no loop or watchdog is created, nothing is scheduled,
\* pending_notes and chart_playing are unchanged, and the chart of the
\* running playback is unchanged.
C15_FailedStartNoEffect ==
  [][(StartCalled /\ (~last_call'.chart.present \/ ThreadAlive)) =>
       /\ UNCHANGED <<chart_thread, miss_checker, miss_checker_thread,
                      chart_playing, notes, pending_notes, target_value,
                      counter, chart_log, results>>
       /\ ThreadAlive => chart_data' = chart_data]_vars

\* the note has its final outcome: a tap hit or missed, a hold completed,
\* broken or missed
Resolved(n) == n.hit \/ n.hold_broken

\* C16: a judgment pass that comes to a note that is already resolved emits
\* nothing for it and leaves its flags unchanged, with any reading at any
\* time: a judged tap and a broken or missed hold are skipped, a completed
\* hold goes through the hold branch without effect.
C16_ResolvedNoteUntouched ==
  [][\A p \in Passes :
       (/\ pass[p].pc \in {"loop", "hold", "phase"}
        /\ pass[p].idx \in 1..Len(pass[p].notes_copy)
        /\ Resolved(Cur(p))
        /\ pass[p].pc \in {"hold", "phase"} => Cur(p).hit
        /\ pass'[p] # pass[p]) =>
         LET i == pass[p].notes_copy[pass[p].idx]
         IN /\ notes'[i] = notes[i]
            /\ results'[i] = results[i]
            /\ \/ pass'[p].pc = "loop" /\ pass'[p].idx = pass[p].idx + 1
               \/ /\ pass[p].pc = "loop" /\ pass'[p].pc = "hold"
                  /\ pass'[p].idx = pass[p].idx
                  /\ Cur(p).is_hold /\ Cur(p).hit
               \/ /\ pass[p].pc = "hold" /\ pass'[p].pc = "phase"
                  /\ pass'[p].idx = pass[p].idx]_vars

\* a pass with a satisfying reading, not too early for the tap, has gone
\* past a tap that the watchdog had reported missed when the pass came to it
C16_Witness ==
  \E p \in Passes :
    /\ pass[p].pc = "loop"
    /\ pass[p].idx = 2
    /\ LET i == pass[p].notes_copy[1]
           u == pass[p].reading.utensil
       IN /\ ~notes[i].is_hold /\ notes[i].hit
          /\ notes[i].utensil = u
          /\ should_play(u, pass[p].reading.data, notes[i].target, Threshold(u))
          /\ ~TooEarly(pass[p].now - notes[i].hit_time)
          /\ Kinds(i) = <<"miss">>

\* the step of pass p moves it to the next note
MovesOn(p) == pass'[p].pc = "loop" /\ pass'[p].idx = pass[p].idx + 1

\* the step of pass p takes it to the keyed write of the transition act
Decides(p, act) ==
  /\ pass'[p].pc = "mark" /\ pass'[p].act = act
  /\ pass'[p].idx = pass[p].idx

\* the step of pass p emits exactly one result of kind res for its note, at
\* the time of the pass, and changes no flag of it
EmitsOne(p, res) ==
  LET i == pass[p].notes_copy[pass[p].idx]
  IN /\ notes'[i] = notes[i]
     /\ Len(results'[i]) = Len(results[i]) + 1
     /\ SubSeq(results'[i], 1, Len(results[i])) = results[i]
     /\ results'[i][Len(results'[i])].result = res
     /\ results'[i][Len(results'[i])].time = pass[p].now

\* the step of pass p leaves its note and the results of the note unchanged
Untouched(p) ==
  LET i == pass[p].notes_copy[pass[p].idx]
  IN notes'[i] = notes[i] /\ results'[i] = results[i]

\* the step of pass p writes the flags w of its note and emits nothing
Writes(p, w) ==
  LET i == pass[p].notes_copy[pass[p].idx]
  IN notes'[i] = w /\ results'[i] = results[i]

\* the pass p is in the hold branch of a note
InHoldBranch(p) ==
  /\ pass[p].pc \in {"hold", "phase", "throttle", "mark", "emit"}
  /\ pass'[p] # pass[p]

\* the step of pass p evaluates the condition of its note and goes on to
\* pick the phase
Evaluates(p) ==
  /\ Untouched(p)
  /\ pass'[p].pc = "phase" /\ pass'[p].idx = pass[p].idx
  /\ pass'[p].condition_met = Satisfied(p)

\* the step of pass p is the assignment number k of its keyed write: the
\* note becomes w, nothing is emitted, and the pass stays in the write
\* unless the assignment is the last one
Assigns(p, k, w, last) ==
  pass[p].step = k - 1 =>
    /\ Writes(p, w)
    /\ IF last THEN pass'[p].pc # "mark"
       ELSE pass'[p].pc = "mark" /\ pass'[p].step = k

\* C17: start phase of a hold that is not started and not broken: a reading
\* of its utensil with now - hit_time >= -HIT_WINDOW that satisfies the
\* condition sets hold_started and hold_active, records now as the sample
\* time and emits one "hold_start"; an unsatisfying reading changes nothing.
C17_HoldStart ==
  [][\A p \in Passes :
       InHoldBranch(p) =>
         LET n == Cur(p)
             t == pass[p].now
             fresh == ~n.hold_started /\ ~n.hold_broken
         IN CASE pass[p].pc = "hold" /\ fresh /\ t - n.hit_time >= -HIT_WINDOW ->
                   Evaluates(p)
              [] pass[p].pc = "phase" /\ fresh /\ t - n.hit_time >= -HIT_WINDOW ->
                   /\ Untouched(p)
                   /\ IF pass[p].condition_met THEN Decides(p, "hold_start")
                      ELSE MovesOn(p)
              [] pass[p].pc = "mark" /\ pass[p].act = "hold_start"
                 /\ (pass[p].step = 0 => fresh) ->
                   /\ Assigns(p, 1, [n EXCEPT !.hold_started = TRUE], FALSE)
                   /\ Assigns(p, 2, [n EXCEPT !.hold_active = TRUE], FALSE)
                   /\ Assigns(p, 3, [n EXCEPT !.last_check_time = t], TRUE)
                   /\ pass[p].step = 2 => pass'[p].pc = "emit"
              [] pass[p].pc = "emit" /\ pass[p].act = "hold_start" ->
                   EmitsOne(p, "hold_start") /\ MovesOn(p)
              [] OTHER -> TRUE]_vars

\* C18: maintain phase (hold_active, now < hold_end_time): a reading sooner
\* than HOLD_CHECK_INTERVAL (50 ms) after the last sample changes nothing,
\* even when unsatisfied; at a sampling instant an unsatisfied reading sets
\* hold_broken, clears hold_active and emits "hold_break", a satisfied one
\* only refreshes the sample time.
C18_HoldMaintain ==
  [][\A p \in Passes :
       InHoldBranch(p) =>
         LET n == Cur(p)
             t == pass[p].now
             maintained == n.hold_started /\ n.hold_active /\ t < n.hold_end_time
         IN CASE pass[p].pc = "hold" /\ maintained -> Evaluates(p)
              [] pass[p].pc = "phase" /\ maintained ->
                   /\ Untouched(p)
                   /\ pass'[p].pc = "throttle" /\ pass'[p].idx = pass[p].idx
              [] /\ pass[p].pc = "throttle" /\ maintained
                 /\ n.last_check_time # NoTime ->
                   /\ Untouched(p)
                   /\ IF 20 * (t - n.last_check_time) < TicksPerSecond
                      THEN MovesOn(p)
                      ELSE IF pass[p].condition_met THEN Decides(p, "refresh")
                           ELSE Decides(p, "hold_break")
              [] pass[p].pc = "mark" /\ pass[p].act = "refresh" /\ n.hold_active ->
                   /\ Writes(p, [n EXCEPT !.last_check_time = t])
                   /\ MovesOn(p)
              [] /\ pass[p].pc = "mark" /\ pass[p].act = "hold_break"
                 /\ (pass[p].step = 0 => n.hold_active) ->
                   /\ Assigns(p, 1, [n EXCEPT !.hold_active = FALSE], FALSE)
                   /\ Assigns(p, 2, [n EXCEPT !.hold_broken = TRUE], TRUE)
                   /\ pass[p].step = 1 => pass'[p].pc = "emit"
              [] pass[p].pc = "emit" /\ pass[p].act = "hold_break" ->
                   EmitsOne(p, "hold_break") /\ MovesOn(p)
              [] OTHER -> TRUE]_vars

\* a pass with an unsatisfying reading, taken at the instant of the last
\* sample and before the end of the hold, has gone past the hold, which is
\* still active
C18_Witness ==
  \E p \in Passes :
    /\ pass[p].pc = "loop"
    /\ pass[p].idx = 2
    /\ LET i == pass[p].notes_copy[1]
           u == pass[p].reading.utensil
       IN /\ notes[i].is_hold /\ notes[i].hold_active
          /\ notes[i].utensil = u
          /\ ~should_play(u, pass[p].reading.data, notes[i].target, Threshold(u))
          /\ pass[p].now = notes[i].last_check_time
          /\ pass[p].now < notes[i].hold_end_time
          /\ Kinds(i) = <<"hold_start">>

\* C19: end phase (hold_active, now >= hold_end_time): the reading resolves
\* the note; satisfied, or less than HOLD_GRACE_PERIOD (100 ms) past
\* hold_end_time, it becomes complete and "hold_complete" is emitted,
\* otherwise broken and "hold_break" is emitted with completion_percent 99;
\* hold_active becomes false in both cases.
C19_HoldEnd ==
  [][\A p \in Passes :
       InHoldBranch(p) =>
         LET n == Cur(p)
             t == pass[p].now
             ending == n.hold_started /\ n.hold_active /\ t >= n.hold_end_time
         IN CASE pass[p].pc = "hold" /\ ending -> Evaluates(p)
              [] pass[p].pc = "phase" /\ ending ->
                   /\ Untouched(p)
                   /\ IF pass[p].condition_met
                         \/ 10 * (t - n.hold_end_time) < TicksPerSecond
                      THEN Decides(p, "hold_complete")
                      ELSE Decides(p, "hold_break_end")
              [] /\ pass[p].pc = "mark" /\ pass[p].act = "hold_complete"
                 /\ (pass[p].step = 0 => n.hold_active) ->
                   /\ Assigns(p, 1, [n EXCEPT !.hold_active = FALSE], FALSE)
                   /\ Assigns(p, 2, [n EXCEPT !.hit = TRUE], TRUE)
                   /\ pass[p].step = 1 => pass'[p].pc = "emit"
              [] /\ pass[p].pc = "mark" /\ pass[p].act = "hold_break_end"
                 /\ (pass[p].step = 0 => n.hold_active) ->
                   /\ Assigns(p, 1, [n EXCEPT !.hold_active = FALSE], FALSE)
                   /\ Assigns(p, 2, [n EXCEPT !.hold_broken = TRUE], TRUE)
                   /\ pass[p].step = 1 => pass'[p].pc = "emit"
              [] pass[p].pc = "emit" /\ pass[p].act = "hold_complete" ->
                   EmitsOne(p, "hold_complete") /\ MovesOn(p)
              [] pass[p].pc = "emit" /\ pass[p].act = "hold_break_end" ->
                   /\ EmitsOne(p, "hold_break") /\ MovesOn(p)
                   /\ LET i == pass[p].notes_copy[pass[p].idx]
                      IN results'[i][Len(results'[i])].completion_percent = 99
              [] OTHER -> TRUE]_vars

\* a hold released too early has been broken by the first reading after its
\* end time, with completion 99
C19_Witness ==
  \E i \in Holds :
    /\ notes[i].hold_broken /\ ~notes[i].hold_active /\ ~notes[i].hit
    /\ Kinds(i) = <<"hold_start", "hold_break">>
    /\ results[i][2].time >= notes[i].hold_end_time
    /\ results[i][2].completion_percent = 99

\* ------------------------------------------------------------------------
\* The control calls with every thread scheduled: a thread that can take a
\* step takes it, and time passes; the control calls themselves may or may
\* not come
\* ------------------------------------------------------------------------
SpecControlLive ==
  /\ SpecControl
  /\ WF_vars(Elapse)
  /\ WF_vars(Countdown)
  /\ WF_vars(BuildEvents)
  /\ WF_vars(BuildClock)
  /\ WF_vars(BuildQueues)
  /\ WF_vars(BuildCrash)
  /\ WF_vars(ChartTick)
  /\ WF_vars(ChartVisual)
  /\ WF_vars(ChartPop)
  /\ WF_vars(ChartBind)
  /\ WF_vars(ChartActive)
  /\ WF_vars(ChartExit)
  /\ WF_vars(ChartEnd)
  /\ \A w \in Watchdogs :
       WF_vars(MissCheck(w)) /\ WF_vars(MissScan(w)) /\ WF_vars(MissEmit(w))
  /\ WF_vars(RestartJoinChart)
  /\ WF_vars(RestartJoinChecker)
  /\ WF_vars(RestartClear)
  /\ WF_vars(RestartReset)
  /\ WF_vars(RestartStart)

\* stop_chart_playback was the last call: no start or restart came later
Stopped == last_call.op = "stop"

\* the scheduler loop has returned and no watchdog runs
AllTerminated ==
  /\ ~ThreadAlive
  /\ \A w \in Watchdogs : miss_checker[w] # "run"

\* C20: after stop, with no later start or restart, the tick loop emits no
\* visual and no activation notification in an iteration that begins after
\* the flag was cleared, and the scheduler loop and the miss watchdog
\* eventually terminate.
C20_StopEndsPlayback ==
  /\ [][(Stopped /\ Stopped' /\ chart_thread.pc = "tick") =>
          /\ chart_log' = chart_log
          /\ chart_thread'.pc \in {"tick", "finished"}]_vars
  /\ Stopped ~> (~Stopped \/ AllTerminated)

\* stop came while entries were still queued: the loop and the watchdog have
\* ended, an entry is left in a queue, and a notification is missing
C20_Witness ==
  /\ Stopped
  /\ AllTerminated
  /\ chart_thread.visual_queue \cup chart_thread.activation_queue # {}
  /\ Len(chart_log) >= 1
  /\ Len(chart_log) < 2 * Len(chart_data.events)

\* the step is a step of a watchdog that writes or reports something: only
\* the judgment passes, the scheduler loop and the watchdogs change notes or
\* results
WatchdogTick ==
  /\ pass' = pass
  /\ chart_thread' = chart_thread
  /\ notes' # notes \/ results' # results

\* the step reports a miss for the note i
MissReported(i) ==
  /\ Len(results'[i]) > Len(results[i])
  /\ results'[i][Len(results'[i])].result = "miss"

\* after the step a watchdog is about to report the note i, with the time t
\* of its scan
MissComing(i, t) ==
  \E w \in Watchdogs :
    /\ scan'[w].pc = "emit"
    /\ pending_notes[scan'[w].at] = i
    /\ scan'[w].now = t

\* C21: the watchdog finalizes a hold as missed (hold_broken set, one "miss"
\* of note type hold) only when the hold never started and
\* now > hit_time + HIT_WINDOW; it never changes or reports a started hold;
\* no miss is reported for any note while now <= hit_time + HIT_WINDOW.
C21_WatchdogHoldMiss ==
  [][\A i \in DOMAIN notes :
       /\ MissReported(i) =>
            /\ now > notes[i].hit_time + HIT_WINDOW
            /\ results'[i][Len(results'[i])].time
                 > notes[i].hit_time + HIT_WINDOW
            /\ Len(results'[i]) = Len(results[i]) + 1
            /\ Count(i, "miss") = 0
            /\ notes' = notes
            /\ notes[i].is_hold =>
                 /\ ~notes[i].hold_started /\ notes[i].hold_broken
                 /\ results'[i][Len(results'[i])].note_type = "hold"
       /\ (WatchdogTick /\ notes[i].is_hold) =>
            /\ notes[i].hold_started =>
                 notes'[i] = notes[i] /\ results'[i] = results[i]
            /\ notes'[i] # notes[i] =>
                 /\ notes'[i] = [notes[i] EXCEPT !.hold_broken = TRUE]
                 /\ \E t \in notes[i].hit_time + HIT_WINDOW + 1 .. now :
                      MissComing(i, t)]_vars

\* a hold that never started has been finalized by the watchdog, after the
\* end of its hit window
C21_Witness ==
  \E i \in Holds :
    /\ notes[i].hold_broken /\ ~notes[i].hold_started
    /\ Kinds(i) = <<"miss">>
    /\ results[i][1].note_type = "hold"
    /\ results[i][1].time > notes[i].hit_time + HIT_WINDOW

\* the flags of a note that record its outcome
Flags(n) == <<n.hit, n.hold_started, n.hold_active, n.hold_broken>>

\* C22: once a note is resolved (tap hit or missed, hold complete or
\* broken), no later step of a judgment pass or of the watchdog changes its
\* flags hit, hold_started, hold_active, hold_broken.
C22_ResolvedIsTerminal ==
  [][\A i \in DOMAIN notes :
       Resolved(notes[i]) => Flags(notes'[i]) = Flags(notes[i])]_vars

\* the entries in the two queues of the scheduler loop
Queued == chart_thread.visual_queue \cup chart_thread.activation_queue

\* the emissions k and l come from the same queue of the same playback
SameQueue(k, l) ==
  /\ chart_log[k].event = chart_log[l].event
  /\ chart_log[k].start = chart_log[l].start

\* C23: the entries of each queue are emitted in non-decreasing order of
\* scheduled time, entries of equal time in the order of their events in
\* the chart; the tie-break numbers are unique and increase over all
\* insertions, also from one playback to the next.
C23_EmissionOrder ==
  /\ [](\A k, l \in DOMAIN chart_log :
          (k < l /\ SameQueue(k, l)) =>
            \/ chart_log[k].due < chart_log[l].due
            \/ /\ chart_log[k].due = chart_log[l].due
               /\ chart_log[k].note < chart_log[l].note)
  /\ [](\A k, l \in DOMAIN chart_log :
          chart_log[k].start < chart_log[l].start =>
            chart_log[k].id < chart_log[l].id)
  /\ [](\A a, b \in Queued : a # b => a.id # b.id)
  /\ [][\A e \in Queued' \ Queued : counter <= e.id /\ e.id < counter']_vars

\* two entries of one queue with the same scheduled time have been emitted,
\* and an entry of a later playback after them
C23_Witness ==
  \E k, l, m \in DOMAIN chart_log :
    /\ k < l /\ l < m
    /\ SameQueue(k, l)
    /\ chart_log[k].due = chart_log[l].due
    /\ chart_log[m].start > chart_log[k].start

\* sensor snapshots of the stream, and the empty one
Snapshots == {r.data : r \in Readings} \cup {<<>>}

\* C24: should_play with target None is false for every utensil and every
\* snapshot, so a note whose target is None is never hit and never started:
\* its only outcome is a miss.
C24_AbsentTargetNeverHit ==
  /\ \A u \in Utensils, d \in Snapshots : ~should_play(u, d, None, Threshold(u))
  /\ \A i \in DOMAIN notes :
       notes[i].target = None =>
         /\ ~notes[i].hold_started
         /\ notes[i].hit => Count(i, "miss") >= 1
         /\ \A k \in DOMAIN results[i] : results[i][k].result = "miss"

\* ------------------------------------------------------------------------
\* The condition evaluator on its own
\* ------------------------------------------------------------------------
\* should_play(utensil, sensor_data, target, threshold) returns
Evaluate ==
  /\ evaluation.pc = "call"
  /\ evaluation' =
       [evaluation EXCEPT
          !.pc = "done",
          !.result = should_play(evaluation.utensil, evaluation.sensor_data,
                                 evaluation.target, evaluation.threshold)]
  /\ UNCHANGED <<now, chart_data, chart_playing, chart_thread, counter,
                 miss_checker, notes, pending_notes, target_value,
                 sound_rules_lock, pass, results, chart_log,
                 miss_checker_thread, restart, calls, epoch, last_call, locking, scan,
                 mixing_bowl_state,
                 config, threshold>>

NextEval == Evaluate

SpecEval == InitEval /\ [][NextEval]_vars

\* the call of should_play has returned
Returned == evaluation.pc = "done"

Abs(x) == IF x < 0 THEN -x ELSE x

\* C25: for the pan and a band target, should_play is true exactly when
\* |rotation - reference value of the band| <= threshold; for the target
\* flip it is the press / contact state, whatever the rotation; each target
\* selects exactly one of these tests.
C25_PanBands ==
  (Returned /\ evaluation.utensil = "pan") =>
    LET rotation == Get(evaluation.sensor_data, "rotation", 0)
        pressed == Get(evaluation.sensor_data, "distance", FALSE)
        within(ref) == Abs(rotation - ref) <= evaluation.threshold
    IN CASE evaluation.target = "low" -> evaluation.result = within(LOW_FIRE)
         [] evaluation.target = "medium" -> evaluation.result = within(MED_FIRE)
         [] evaluation.target = "high" -> evaluation.result = within(HIGH_FIRE)
         [] evaluation.target = "flip" -> evaluation.result = pressed
         [] OTHER -> TRUE

\* the low band is satisfied at its lower limit while the contact is open
C25_Witness ==
  /\ Returned
  /\ evaluation.utensil = "pan"
  /\ evaluation.target = "low"
  /\ evaluation.sensor_data =
       [k \in {"rotation", "distance"} |->
          IF k = "rotation" THEN LOW_FIRE - 5 ELSE FALSE]
  /\ evaluation.result

\* C26: for the cutting board, should_play is true if and only if the
\* snapshot's entry for the button the target names equals 1; a button
\* missing from the snapshot counts as not pressed, and the other buttons'
\* states do not affect the result.
C26_ButtonPanel ==
  (Returned /\ evaluation.utensil = "cutting_board"
            /\ evaluation.target # None) =>
    evaluation.result =
      (/\ evaluation.target \in DOMAIN evaluation.sensor_data
       /\ evaluation.sensor_data[evaluation.target] = 1)

\* button 2 is asked for and is up while button 1 is down: not satisfied
C26_Witness ==
  /\ Returned
  /\ evaluation.utensil = "cutting_board"
  /\ evaluation.target = "2"
  /\ evaluation.sensor_data = [k \in {"1", "2"} |-> IF k = "1" THEN 1 ELSE 0]
  /\ ~evaluation.result

\* C27: for the mixing bowl, should_play with target up / down / left /
\* right is true if and only if the coordinate lies beyond the edge
\* threshold from the center on the named side; with target clockwise /
\* counterclockwise it is true if and only if the direction passed in the
\* snapshot equals the target.
C27_Directional ==
  (Returned /\ evaluation.utensil = "mixing_bowl") =>
    LET x == Get(evaluation.sensor_data, "x", CENTER)
        y == Get(evaluation.sensor_data, "y", CENTER)
        direction == Get(evaluation.sensor_data, "direction", None)
    IN CASE evaluation.target = "up" ->
              evaluation.result = (CENTER - y > EDGE_THRESHOLD)
         [] evaluation.target = "down" ->
              evaluation.result = (y - CENTER > EDGE_THRESHOLD)
         [] evaluation.target = "left" ->
              evaluation.result = (CENTER - x > EDGE_THRESHOLD)
         [] evaluation.target = "right" ->
              evaluation.result = (x - CENTER > EDGE_THRESHOLD)
         [] evaluation.target \in Directions ->
              evaluation.result = (direction = evaluation.target)
         [] OTHER -> TRUE

\* ------------------------------------------------------------------------
\* Snapshots without the fields a utensil expects, in the evaluator and in
\* the judgment passes of a playback
\* ------------------------------------------------------------------------
\* the keys should_play reads for a utensil
ExpectedFields(utensil) ==
  IF utensil = "pan" THEN {"rotation", "distance"}
  ELSE IF utensil = "cutting_board" THEN {"1", "2"}
  ELSE IF utensil = "mixing_bowl" THEN {"x", "y"}
  ELSE {}
Lacking(r) == DOMAIN r.data \cap ExpectedFields(r.utensil) = {}

\* the sensor stream with the message of the pan without fields
LackingReadings == Readings \cup PanPayloads
\* band targets of the pan, as a tap and as a hold
ChartLowHold == <<Evt(6 * TicksPerSecond, "pan", "low", 3 * TicksPerSecond)>>
LackingCharts == Charts \cup {Chart(ChartTwo), Chart(ChartLowHold)}

\* should_play is about to be called on its own with an empty snapshot, or
\* no such call is made and a playback is run, under any configuration
EmptyCalls == {c \in EvalCalls : c.sensor_data = <<>>}
InitLacking ==
  /\ now = 0
  /\ chart_data = NoChart
  /\ chart_playing = FALSE
  /\ chart_thread = NoThread
  /\ counter = 0
  /\ miss_checker = [w \in Watchdogs |-> "none"]
  /\ notes = <<>>
  /\ pending_notes = <<>>
  /\ target_value = [u \in Utensils |-> None]
  /\ sound_rules_lock = None
  /\ pass = [p \in Passes |-> IdlePass]
  /\ results = <<>>
  /\ chart_log = <<>>
  /\ miss_checker_thread = None
  /\ restart = NoRestart
  /\ calls = 0
  /\ epoch = 0
  /\ last_call = Call(None, NoChart)
  /\ evaluation \in EmptyCalls \cup {NoEvaluation}
  /\ locking = NoLocking
  /\ scan = NoScan
  /\ mixing_bowl_state = None
  /\ config \in Configs
  /\ threshold = [u \in Utensils |-> InitialThreshold(u)]

\* the playback is started when should_play is not called on its own
MainLacking ==
  /\ evaluation.pc = "idle"
  /\ Boot(LackingCharts)

NextLacking ==
  \/ Advance
  \/ MainLacking
  \/ Countdown
  \/ BuildEvents
  \/ BuildClock
  \/ BuildQueues
  \/ ChartTick
  \/ ChartVisual
  \/ ChartPop
  \/ ChartBind
  \/ ChartActive
  \/ ChartExit
  \/ ChartEnd
  \/ \E w \in Watchdogs : MissCheck(w)
  \/ \E w \in Watchdogs : MissScan(w)
  \/ \E w \in Watchdogs : MissEmit(w)
  \/ \E r \in LackingReadings : PassMessage("p1", r)
  \/ PassSound("p1")
  \/ PassBegin("p1")
  \/ PassCopy("p1")
  \/ PassNote("p1")
  \/ PassTap("p1")
  \/ PassTapHit("p1")
  \/ PassTapEmit("p1")
  \/ PassHold("p1")
  \/ PassPhase("p1")
  \/ PassThrottle("p1")
  \/ PassMark("p1")
  \/ PassEmit("p1")
  \/ PassPrune("p1")
  \/ Evaluate

SpecLacking == InitLacking /\ [][NextLacking]_vars

Activations(u) ==
  {k \in DOMAIN chart_log :
     /\ chart_log[k].event = "target_active"
     /\ chart_log[k].utensil = u
     /\ chart_log[k].epoch = epoch}
Latest(S) == CHOOSE k \in S : \A l \in S : l <= k

\* the events of utensil u that the chart loop has bound since the last
\* reset and not announced yet
Unannounced(u) ==
  {e \in chart_thread.popped :
     /\ chart_thread.pc = "active"
     /\ chart_thread.bound = epoch
     /\ e.evt.utensil = u}

\* C29: the target bound to a utensil is unset when no event of the utensil
\* was activated since the process started or since the last restart, and
\* otherwise the target of the most recently activated event of the utensil;
\* a binding changes only in a step of the chart loop that activates an
\* event of its utensil or in the reset of a restart, never in a step of a
\* judgment pass or of the watchdog; no step changes the threshold of a
\* binding.
C29_BindingWriters ==
  /\ [](\A u \in Utensils :
          \/ /\ Unannounced(u) # {}
             /\ \E e \in Unannounced(u) : target_value[u] = e.evt.target
          \/ /\ Unannounced(u) = {}
             /\ target_value[u] =
                  IF Activations(u) = {} THEN None
                  ELSE chart_log[Latest(Activations(u))].target)
  /\ [][\A u \in Utensils :
          target_value'[u] # target_value[u] =>
            /\ pass' = pass /\ miss_checker' = miss_checker /\ scan' = scan
            /\ notes' = notes /\ results' = results
            /\ \/ epoch' # epoch
               \/ /\ chart_thread.pc = "bind" /\ chart_thread'.pc = "active"
                  /\ \E e \in chart_thread.popped :
                       /\ e.evt.utensil = u
                       /\ target_value'[u] = e.evt.target]_vars
  /\ [][\A k \in DOMAIN chart_log' \ DOMAIN chart_log :
          chart_log'[k].event = "target_active" =>
            /\ chart_thread.pc = "active"
            /\ \E e \in chart_thread.popped :
                 /\ chart_log'[k].utensil = e.evt.utensil
                 /\ chart_log'[k].target = e.evt.target]_vars
  /\ [][(pass' # pass \/ scan' # scan) => target_value' = target_value]_vars
  /\ [][threshold' = threshold]_vars

\* the board was bound in the first playback and a pass hit its tap; the
\* restart has unset the binding of the board; the bowl is bound in the new
\* playback and a pass has started its hold
C29_Witness ==
  /\ epoch = 1
  /\ \E k \in DOMAIN chart_log :
       /\ chart_log[k].event = "target_active"
       /\ chart_log[k].utensil = "cutting_board"
       /\ chart_log[k].epoch = 0
  /\ \E i \in DOMAIN notes :
       notes[i].utensil = "cutting_board" /\ Count(i, "hit") = 1
  /\ target_value["cutting_board"] = None
  /\ target_value["mixing_bowl"] = "up"
  /\ \E i \in DOMAIN notes :
       notes[i].utensil = "mixing_bowl" /\ Count(i, "hold_start") = 1

\* C30: no result is emitted by a thread that holds a lock: in every step
\* of a judgment pass that emits a result, the pass does not hold
\* sound_rules_lock when the step begins, and in every step of a watchdog
\* that emits a result, the watchdog does not hold pending_lock.
C30_EmitOutsideLocks ==
  /\ [][\A p \in Passes :
          (pass'[p] # pass[p] /\ results' # results) =>
            sound_rules_lock # p]_vars
  /\ [][\A w \in Watchdogs :
          (scan'[w] # scan[w] /\ results' # results) => pending_lock # w]_vars

\* ------------------------------------------------------------------------
\* The registry: keys, flags, insertions
\* ------------------------------------------------------------------------
\* the note at position k of pending_notes
Entry(k) == notes[pending_notes[k]]

\* C32: the key (utensil, hit_time) is unique within the registry in every
\* reachable state, and the keyed update of a judgment pass writes to the
\* note the pass is examining.
C32_UniqueKey ==
  /\ \A k, l \in 1..Len(pending_notes) :
       k # l => ~(/\ Entry(k).utensil = Entry(l).utensil
                  /\ Entry(k).hit_time = Entry(l).hit_time)
  /\ \A p \in Passes :
       pass[p].pc \in {"tap_hit", "mark"} =>
         KeyedNote(Cur(p), pass[p].pc = "tap_hit")
           \in {0, pass[p].notes_copy[pass[p].idx]}

\* C35: the flags of every note in the registry are consistent: hold_active
\* implies hold_started and neither hold_broken nor hit; a note is never both
\* hit and hold_broken; a tap has none of the three hold flags.
C35_FlagsConsistent ==
  \A k \in 1..Len(pending_notes) :
    LET n == Entry(k)
    IN /\ n.hold_active => (n.hold_started /\ ~n.hold_broken /\ ~n.hit)
       /\ ~(n.hit /\ n.hold_broken)
       /\ ~n.is_hold => (~n.hold_started /\ ~n.hold_active /\ ~n.hold_broken)

\* C37: at most one miss watchdog loop is alive at any time.
C37_OneWatchdog ==
  Cardinality({w \in Watchdogs : miss_checker[w] = "run"}) <= 1

\* C40: notes are inserted into the registry only while the running flag is
\* set: a step that adds a note starts in a state where chart_playing holds.
C40_InsertOnlyWhilePlaying ==
  [][Len(notes') > Len(notes) => chart_playing]_vars

\* ------------------------------------------------------------------------
\* The threads of a playback
\* ------------------------------------------------------------------------
\* chart_thread.is_alive(): the loop is in its countdown, building, ticking
\* or past its last write and not yet ended
Alive ==
  chart_thread.pc \in {"countdown", "events", "build", "finished"}
                        \cup LoopStages
\* the step starts a new _chart_loop thread
Created ==
  /\ chart_thread' # chart_thread
  /\ chart_thread'.pc = "countdown"
  /\ chart_thread'.count = 5

\* C36: at most one scheduler loop is alive at any time: a new loop is
\* started only in a state where no loop is alive, over every sequence of
\* start, stop and restart calls.
C36_OneLoop == [][Created => ~Alive]_vars

\* a start called during the countdown of the running loop has returned
\* without starting a second loop
C36_Witness ==
  /\ calls = 1
  /\ last_call.op = "start"
  /\ last_call.chart.present
  /\ restart.pc = "idle"
  /\ epoch = 0
  /\ chart_thread.pc = "countdown"
  /\ chart_thread.count < 5

\* ------------------------------------------------------------------------
\* One iteration of the playback loop
\* ------------------------------------------------------------------------
\* the playback loop is inside an iteration: it has read the time and has
\* not come back to the loop test
InIteration == chart_thread.pc \in LoopStages \ {"tick"}

\* the emissions of the step
Emissions == SubSeq(chart_log', Len(chart_log) + 1, Len(chart_log'))

\* C33: an iteration of the playback loop reads the time once and empties
\* the visual queue and then the activation queue of every entry due at that
\* time: its visual emissions precede its activation emissions, all carry
\* the time that was read, and no due entry remains in either queue; no
\* event's activation is emitted before the event's visual notification.
C33_TickDrainsQueues ==
  /\ [][InIteration =>
          /\ InIteration' => chart_thread'.now = chart_thread.now
          /\ chart_thread'.pc = "tick" =>
               \A e \in chart_thread'.visual_queue
                          \cup chart_thread'.activation_queue :
                 e.time > chart_thread.now
          /\ \A k \in DOMAIN Emissions :
               /\ Emissions[k].due <= chart_thread.now
               /\ Emissions[k].event = "chart_event"
                    => Emissions[k].server_time = chart_thread.now
               /\ Emissions[k].event = "target_active"
                    => Emissions[k].event_time = chart_thread.now]_vars
  /\ [][Emissions # <<>> => InIteration]_vars
  /\ [](chart_thread.pc \in {"activation", "bind", "active"} =>
          \A e \in chart_thread.visual_queue : e.time > chart_thread.now)
  /\ [](\A k \in DOMAIN chart_log :
          chart_log[k].event = "target_active" =>
            \E j \in 1..(k - 1) :
              /\ chart_log[j].event = "chart_event"
              /\ chart_log[j].note = chart_log[k].note)

\* one iteration has emitted the visual notifications of two events and
\* then the activation notification of an event, all with the time it read,
\* and the loop goes on with entries that are not yet due
C33_Witness ==
  /\ chart_thread.pc = "tick"
  /\ chart_thread.activation_queue # {}
  /\ \A e \in chart_thread.activation_queue : e.time > now
  /\ \E j, k, l \in DOMAIN chart_log :
       /\ j < k /\ k < l
       /\ chart_log[j].event = "chart_event"
       /\ chart_log[k].event = "chart_event"
       /\ chart_log[l].event = "target_active"
       /\ chart_log[j].server_time = chart_log[k].server_time
       /\ chart_log[l].event_time = chart_log[k].server_time

\* ------------------------------------------------------------------------
\* Judgment and the target bindings
\* ------------------------------------------------------------------------
\* a playback runs to its end with no message, and the next playback is
\* started with the bindings, the pending notes and the counter it has left
\* behind (stop and start reset none of them); the sensor stream comes with
\* the second playback, one reading at a time, at the instants of the timers
BoundCharts == {Chart(ChartLateTap), Chart(ChartLateHold)}

MainBound == Boot({Chart(ChartOther)})

\* start_chart_playback after the loop of the playback before has ended
StartAgain(c) ==
  /\ chart_thread.pc = "done"
  /\ StartCall(c)

\* the first message of a pass, once the second playback is started
MessageAgain(p, r) ==
  /\ calls > 0
  /\ PassMessage(p, r)

\* the clock moves between two messages
ElapseBetween ==
  /\ \A p \in Passes : pass[p].pc = "idle"
  /\ Elapse

NextBound ==
  \/ ElapseBetween
  \/ MainBound
  \/ Countdown
  \/ BuildEvents
  \/ BuildClock
  \/ BuildQueues
  \/ ChartTick
  \/ ChartVisual
  \/ ChartPop
  \/ ChartBind
  \/ ChartActive
  \/ ChartExit
  \/ ChartEnd
  \/ \E w \in Watchdogs : MissCheck(w)
  \/ \E w \in Watchdogs : MissScan(w)
  \/ \E w \in Watchdogs : MissEmit(w)
  \/ \E c \in BoundCharts : StartAgain(c)
  \/ \E r \in CompleteReadings : MessageAgain("p1", r)
  \/ PassSound("p1")
  \/ PassBegin("p1")
  \/ PassCopy("p1")
  \/ PassNote("p1")
  \/ PassTap("p1")
  \/ PassTapHit("p1")
  \/ PassTapEmit("p1")
  \/ PassHold("p1")
  \/ PassPhase("p1")
  \/ PassThrottle("p1")
  \/ PassMark("p1")
  \/ PassEmit("p1")
  \/ PassPrune("p1")

SpecBound == Init /\ [][NextBound]_vars

\* ------------------------------------------------------------------------
\* The writers of the bindings: a playback under restart_chart_playback, with
\* the sensor stream delivered one reading at a time at the instants of the
\* timers, so that the scheduler loop, the watchdogs, the restart and the
\* judgment passes run next to each other
\* ------------------------------------------------------------------------
\* the playback started at boot has a tap of the board, and restart is
\* called with a chart that has a hold of the bowl
MainBinding == Boot({Chart(ChartLateTap)})

NextBinding ==
  \/ ElapseBetween
  \/ MainBinding
  \/ Countdown
  \/ BuildEvents
  \/ BuildClock
  \/ BuildQueues
  \/ ChartTick
  \/ ChartVisual
  \/ ChartPop
  \/ ChartBind
  \/ ChartActive
  \/ ChartExit
  \/ ChartEnd
  \/ \E w \in Watchdogs : MissCheck(w)
  \/ \E w \in Watchdogs : MissScan(w)
  \/ \E w \in Watchdogs : MissEmit(w)
  \/ RestartCall(Chart(ChartLateHold))
  \/ RestartJoinChart
  \/ RestartJoinChecker
  \/ RestartClear
  \/ RestartReset
  \/ RestartStart
  \/ \E r \in CompleteReadings : PassMessage("p1", r)
  \/ PassSound("p1")
  \/ PassBegin("p1")
  \/ PassCopy("p1")
  \/ PassNote("p1")
  \/ PassTap("p1")
  \/ PassTapHit("p1")
  \/ PassTapEmit("p1")
  \/ PassHold("p1")
  \/ PassPhase("p1")
  \/ PassThrottle("p1")
  \/ PassMark("p1")
  \/ PassEmit("p1")
  \/ PassPrune("p1")

SpecBinding == Init /\ [][NextBinding]_vars

\* the condition of the note the pass p is examining, on the note's own
\* target and the threshold of the utensil
OwnCondition(p) ==
  should_play(pass[p].reading.utensil, pass[p].reading.data, Cur(p).target,
              Threshold(pass[p].reading.utensil))

\* C34: the verdict of a judgment pass on a note is decided by the note's
\* own target and the threshold of its utensil, whatever target is bound to
\* the utensil: a tap is hit exactly when its own condition is met, a hold
\* takes the transition its own condition selects, and the pass leaves the
\* bindings alone.
C34_VerdictIgnoresBinding ==
  [][\A p \in Passes :
       /\ (pass[p].pc = "tap" /\ pass'[p] # pass[p]) =>
            (pass'[p].pc = "tap_hit") = OwnCondition(p)
       /\ (pass[p].pc = "hold" /\ pass'[p] # pass[p]) =>
            pass'[p].condition_met = OwnCondition(p)
       /\ pass'[p] # pass[p] => target_value' = target_value]_vars

\* a tap has been hit before its time, before its activation, while its
\* utensil was bound to the target of another event
C34_Witness ==
  \E i \in DOMAIN notes :
    /\ ~notes[i].is_hold
    /\ Len(results[i]) = 1
    /\ results[i][1].result = "hit"
    /\ results[i][1].time < notes[i].hit_time
    /\ target_value[notes[i].utensil] \notin {None, notes[i].target}
    /\ \A k \in DOMAIN chart_log :
         chart_log[k].event = "target_active" => chart_log[k].note # i

\* ------------------------------------------------------------------------
\* A hold sampled between the instants of the coarse clock: the playback of
\* one hold, observed every second
\* ------------------------------------------------------------------------
FineStep == 1 * TicksPerSecond

AdvanceFine ==
  /\ now + FineStep <= MaxTime
  /\ ChartThreadWaiting
  /\ WatchdogWaiting
  /\ \A p \in Passes :
       /\ pass[p].pc \notin {"message", "called"}
       /\ pass[p].pc # "idle" =>
            now + FineStep - pass[p].now <= MaxLag * FineStep
  /\ now' = now + FineStep
  /\ UNCHANGED <<chart_data, chart_playing, chart_thread, counter,
                 miss_checker, notes, pending_notes, target_value,
                 sound_rules_lock, pass, results, chart_log>>
  /\ UNCHANGED control_vars

MainFine == Boot({Chart(ChartTap), Chart(ChartLateHold), Chart(ChartLateTap)})

NextFine ==
  \/ AdvanceFine
  \/ MainFine
  \/ Countdown
  \/ BuildEvents
  \/ BuildClock
  \/ BuildQueues
  \/ ChartTick
  \/ ChartVisual
  \/ ChartPop
  \/ ChartBind
  \/ ChartActive
  \/ ChartExit
  \/ ChartEnd
  \/ \E w \in Watchdogs : MissCheck(w)
  \/ \E w \in Watchdogs : MissScan(w)
  \/ \E w \in Watchdogs : MissEmit(w)
  \/ \E r \in Readings : PassMessage("p1", r)
  \/ PassSound("p1")
  \/ PassBegin("p1")
  \/ PassCopy("p1")
  \/ PassNote("p1")
  \/ PassTap("p1")
  \/ PassTapHit("p1")
  \/ PassTapEmit("p1")
  \/ PassHold("p1")
  \/ PassPhase("p1")
  \/ PassThrottle("p1")
  \/ PassMark("p1")
  \/ PassEmit("p1")
  \/ PassPrune("p1")

SpecFine == Init /\ [][NextFine]_vars

\* C39: every "hold_break" result carries a held_duration between 0 and the
\* expected duration and a completion_percent between 0 and 99, also for a
\* hold that was started before its time.
C39_HoldBreakRange ==
  \A i \in DOMAIN results :
    \A k \in DOMAIN results[i] :
      results[i][k].result = "hold_break" =>
        /\ 0 <= results[i][k].held_duration
        /\ results[i][k].held_duration <= results[i][k].expected_duration
        /\ 0 <= results[i][k].completion_percent
        /\ results[i][k].completion_percent <= 99

\* ------------------------------------------------------------------------
\* The two locks (game_logic.py:16, 19): the `with` blocks of every thread,
\* in the order in which the thread enters and leaves them
\* ------------------------------------------------------------------------
Acq(l) == [op |-> "acquire", lock |-> l]
Rel(l) == [op |-> "release", lock |-> l]
Section(l) == <<Acq(l), Rel(l)>>

\* check_note_hits on a tap whose condition is met: the keyed write under
\* pending_lock, inside the block of sound_rules_lock
TapHitSections ==
  <<Acq("sound_rules_lock"), Acq("pending_lock"), Rel("pending_lock"),
    Rel("sound_rules_lock")>>
\* check_note_hits on a hold: the condition under sound_rules_lock, then the
\* keyed write of the transition under pending_lock
HoldSections == Section("sound_rules_lock") \o Section("pending_lock")
\* the judgment of one note of the copy: skipped, a tap or a hold whose
\* condition is not met, a tap hit, a hold transition
Judgments ==
  {<<>>, Section("sound_rules_lock"), TapHitSections, HoldSections}
\* on_message for one message: the sound test, then check_note_hits: the
\* copy of the registry, the judgment of each note of the copy (two here),
\* the clean-up
MessagePrograms ==
  {Section("sound_rules_lock") \o Section("pending_lock") \o first \o second
     \o Section("pending_lock") :
     first \in Judgments, second \in Judgments}
\* note_miss_checker: one scan of the registry
WatchdogProgram == Section("pending_lock")
\* _chart_loop: the build of the queues; one activation
LoopPrograms == {Section("pending_lock"), Section("sound_rules_lock")}
\* (variant of RestartProgram: the bindings are reset inside the block that
\* clears the registry)
RestartProgramNested ==
  <<Acq("pending_lock"), Acq("sound_rules_lock"), Rel("sound_rules_lock"),
    Rel("pending_lock")>>

\* restart_chart_playback: clear the registry, then reset the bindings
RestartProgram == Section("pending_lock") \o Section("sound_rules_lock")

Programs(t) ==
  CASE t = "on_message" -> MessagePrograms
    [] t = "_chart_loop" -> LoopPrograms
    [] t = "note_miss_checker" -> {WatchdogProgram}
    [] t = "restart_chart_playback" -> {RestartProgram}

\* the operation the thread t is at; the thread t is about to take lock l
Op(t) == locking.program[t][locking.at[t]]
Wants(t, l) == locking.at[t] >= 1 /\ Op(t) = Acq(l)

\* the thread t comes to its next round of `with` blocks
Begin(t) ==
  /\ locking.at[t] = 0
  /\ \E program \in Programs(t) :
       locking' = [locking EXCEPT !.program[t] = program, !.at[t] = 1]
  /\ UNCHANGED <<now, chart_data, chart_playing, chart_thread, counter,
                 miss_checker, notes, pending_notes, target_value,
                 sound_rules_lock, pass, results, chart_log,
                 miss_checker_thread, restart, calls, epoch, last_call,
                 evaluation, scan,
                 mixing_bowl_state,
                 config, threshold>>

\* `with lock:` is entered: threading.Lock.acquire(), blocking while the
\* lock is held, by whatever thread
Take(t) ==
  /\ locking.at[t] >= 1
  /\ Op(t).op = "acquire"
  /\ locking.owner[Op(t).lock] = None
  /\ locking' = [locking EXCEPT !.owner[Op(t).lock] = t,
                                !.held[t] = Append(@, Op(t).lock),
                                !.at[t] = @ + 1]
  /\ UNCHANGED <<now, chart_data, chart_playing, chart_thread, counter,
                 miss_checker, notes, pending_notes, target_value,
                 sound_rules_lock, pass, results, chart_log,
                 miss_checker_thread, restart, calls, epoch, last_call,
                 evaluation, scan,
                 mixing_bowl_state,
                 config, threshold>>

\* the `with` block is left
Give(t) ==
  /\ locking.at[t] >= 1
  /\ Op(t).op = "release"
  /\ LET kept(l) == l # Op(t).lock
     IN locking' = [locking EXCEPT
                      !.owner[Op(t).lock] = None,
                      !.held[t] = SelectSeq(@, kept),
                      !.at[t] = IF @ = Len(locking.program[t]) THEN 0 ELSE @ + 1]
  /\ UNCHANGED <<now, chart_data, chart_playing, chart_thread, counter,
                 miss_checker, notes, pending_notes, target_value,
                 sound_rules_lock, pass, results, chart_log,
                 miss_checker_thread, restart, calls, epoch, last_call,
                 evaluation, scan,
                 mixing_bowl_state,
                 config, threshold>>

NextLocks ==
  \/ \E t \in LockThreads : Begin(t)
  \/ \E t \in LockThreads : Take(t)
  \/ \E t \in LockThreads : Give(t)

SpecLocks == Init /\ [][NextLocks]_vars

\* C31: lock-protected sections are never nested: no thread holds one of
\* the two locks while it takes the other.
C31_NoNesting == \A t \in LockThreads : Len(locking.held[t]) <= 1

\* some threads wait for locks that only threads among them can release
Deadlocked ==
  \E T \in SUBSET LockThreads :
    /\ T # {}
    /\ \A t \in T : \E l \in Locks : Wants(t, l) /\ locking.owner[l] \in T

\* C38: the two locks never deadlock: a thread that holds both took
\* sound_rules_lock before pending_lock, no thread waits for sound_rules_lock
\* while it holds pending_lock, and no set of threads waits in a cycle.
C38_LockOrder ==
  /\ \A t \in LockThreads :
       /\ Len(locking.held[t]) = 2 =>
            locking.held[t] = <<"sound_rules_lock", "pending_lock">>
       /\ Wants(t, "sound_rules_lock") =>
            \A k \in DOMAIN locking.held[t] : locking.held[t][k] # "pending_lock"
  /\ ~Deadlocked

\* the message thread holds both locks while the watchdog and restart wait
\* for pending_lock and the playback loop waits for sound_rules_lock
C38_Witness ==
  /\ locking.held["on_message"] = <<"sound_rules_lock", "pending_lock">>
  /\ Wants("note_miss_checker", "pending_lock")
  /\ Wants("restart_chart_playback", "pending_lock")
  /\ Wants("_chart_loop", "sound_rules_lock")

=============================================================================
